---- MODULE Spec2Model ----
(***************************************************************************)
(* A model of the research orchestration pipeline of the TIC Research API: *)
(*   - the Parallel Search Executor (src/src/core/workflows.py),           *)
(*   - the Query Expander, the Source Mapper and the task builder          *)
(*     (src/src/services/openai_service.py),                               *)
(*   - the Cancellation Gate over the conversation store                   *)
(*     (src/database/services/database_service.py).                        *)
(* Text is modelled as a sequence of tokens: f"Error: {e}" is the token    *)
(* "Error: " followed by the tokens of str(e), and the empty string is     *)
(* the empty sequence.                                                     *)
(***************************************************************************)
EXTENDS Integers, Sequences, FiniteSets, TLC

VARIABLES
    \* ---- Parallel Search Executor ----
    mode,               \* "progress": execute_workflow_with_progress, "plain": execute_workflow
    search_tasks,       \* the task list handed to the executor
    tstate,             \* per task: "new", "searching" or "done"
    search_results,     \* what asyncio.gather collects, one slot per awaitable
    completed_results,  \* the processed result list (search_results of the returned dict)
    epc,                \* "gather", "returned" or "raised"
    turn_cancelled,     \* the turn's cancellation flag as the progress callback reads it
    out_of_order,       \* history: some task finished while an earlier one was still running
    \* ---- Expander / Mapper / task builder ----
    ppc,                \* position in generate_and_map_research_queries
    router_decision,    \* the classifier's chosen mode
    dynamic_websites,   \* the source catalog (its domains, in order)
    expansion,          \* the expansion call's outcome
    queries,            \* the local variable `queries` (Unbound until line 90 assigns it)
    generated_queries,  \* the sub-queries used downstream
    mapping_response,   \* the mapping call's outcome
    query_mappings,     \* the mappings map_queries_to_websites returned
    plan_tasks,         \* the task list generate_and_map_research_queries returns
    \* ---- Cancellation Gate over the store ----
    chat_messages,      \* committed rows of the chat_messages table
    clock,              \* datetime.now() truncated to seconds
    gate,               \* per caller: the state of its is_message_cancelled call
    notice_calls,       \* history: per finished gate call that read the flag set, whether it added a turn
    \* ---- Pipeline drivers: chat_stream_summary.generate_stream and chat_send ----
    endpoint,           \* "stream": /chat/stream_summary, "send": /chat/send
    dpc,                \* the driver's position
    user_message,       \* the message_id of the stored user turn
    router_answer,      \* what get_router_decision gave the driver
    request_status,     \* the Research Request's status ("none": no row)
    query_log_ids,      \* the number of Query Log rows stored
    research_result,    \* what route_research_request_with_progress returned
    task_pc,            \* per search task of the driver's run: its position
    summary_stream,     \* the chunks the synthesis stream has yet to yield
    full_summary,       \* the chunks accumulated so far
    forwarded,          \* the summary_chunk events sent to the caller
    terminal,           \* the event (or response) that ended the turn
    ext_calls,          \* the external calls issued so far
    late_calls,         \* history: external calls issued after a checkpoint read the flag set
    observed,           \* history: some checkpoint's SELECT read the flag set
    consulted,          \* history: the gate was called at least once
    cancelled_in,       \* history: where the driver was when the flag was first set
    query_logs,         \* per search task: the status of its Query Log row ("none": no row)
    dispatched,         \* history: the search tasks whose provider call was issued
    failures,           \* history: the stages whose call failed
    events,             \* the types of the events sent on the stream, in order
    \* ---- Concurrent requests of one session ----
    writer,             \* per store_message call: its locals and position
    cancel_response     \* what POST /chat/cancel answered last

execVars == <<mode, search_tasks, tstate, search_results, completed_results, epc, turn_cancelled,
              out_of_order>>
planVars == <<ppc, router_decision, dynamic_websites, expansion, queries, generated_queries,
              mapping_response, query_mappings, plan_tasks>>
gateVars == <<chat_messages, clock, gate, notice_calls>>
driverVars == <<endpoint, dpc, user_message, router_answer, request_status, query_log_ids,
                research_result, task_pc, summary_stream, full_summary, forwarded, terminal,
                ext_calls, late_calls, observed, consulted, cancelled_in, query_logs,
                dispatched, failures, events>>
sessionVars == <<writer, cancel_response>>
vars == <<execVars, planVars, gateVars, driverVars, sessionVars>>

\* Each component's steps leave the other components' variables alone.
ExecOnly == UNCHANGED <<planVars, gateVars, driverVars, sessionVars>>
PlanOnly == UNCHANGED <<execVars, gateVars, driverVars, sessionVars>>
GateOnly == UNCHANGED <<execVars, planVars, driverVars, sessionVars>>
DriverOnly == UNCHANGED <<execVars, planVars, sessionVars>>
SessionOnly == UNCHANGED <<execVars, planVars, driverVars>>

-----------------------------------------------------------------------------
(* Bounds of the model *)

MaxTasks == 4
\* The longest query list the expansion call is taken to return.
MaxGenerated == 4
\* The longest mapping list the mapping call is taken to return.
MaxMappings == 3
\* The number of concurrent callers of the cancellation gate.
NumCallers == 2
\* The last clock second of a run.
MaxClock == 2
\* The number of gate calls whose effect the history keeps.
MaxCalls == 2

-----------------------------------------------------------------------------
(* Text helpers *)

EmptyText == <<>>

\* The URLs a search answer may mention.
Urls == {"https://a.org/1", "https://b.org/2"}

\* PerplexityService.extract_links_from_content: re.findall keeps every match,
\* list(set(...)) removes the duplicates (the order of the result is unspecified,
\* so the links are a set).
ExtractLinks(content) == {content[k] : k \in {j \in 1..Len(content) : content[j] \in Urls}}

-----------------------------------------------------------------------------
(* Search tasks *)

GeneralTask(q) == [type |-> "general_web", query |-> q, websites |-> <<>>]
DomainTask(q, w) == [type |-> "domain_filtered", query |-> q, websites |-> w]

\* The tasks the executor is exercised with.
TaskPool == {GeneralTask("q1"), DomainTask("q2", <<"a.org">>)}

RECURSIVE SeqsUpTo(_, _)
SeqsUpTo(S, n) ==
    IF n = 0 THEN {<<>>}
    ELSE LET shorter == SeqsUpTo(S, n - 1)
         IN  shorter \cup {Append(s, x) : s \in {t \in shorter : Len(t) = n - 1}, x \in S}

-----------------------------------------------------------------------------
(* The search provider *)

\* PerplexityService.search on success: {"content": ..., "citations": ...}.  The
\* answer of a general search mentions the same link twice.
SearchResponse(task) ==
    IF task.type = "general_web"
    THEN [content |-> <<"answer", "https://a.org/1", "again", "https://a.org/1">>,
          citations |-> <<"https://a.org/1">>]
    ELSE [content |-> <<"scoped", "answer">>, citations |-> <<>>]

\* How one provider call can end: it answers, it exceeds the time limit, or it raises.
SearchOutcomes == {"ok", "timeout", "exception"}

\* str(e) of the exception a failing provider call raises.
ProviderErrorText == <<"provider failure">>
\* str(e) of the Exception the progress callback raises (endpoints.py line 275).
CancelledText == <<"Request cancelled during search">>

-----------------------------------------------------------------------------
(* Result records *)

NoResult == [kind |-> "none"]
Returned(rec) == [kind |-> "dict", value |-> rec]
Raised(cls, text) == [kind |-> "exception", cls |-> cls, text |-> text]

SuccessRecord(task, resp) ==
    [query |-> task.query, result |-> resp.content, citations |-> resp.citations,
     extracted_links |-> ExtractLinks(resp.content), status |-> "success",
     search_type |-> task.type, websites |-> task.websites]

\* The record of the `except Exception` clause: f"Error: {str(e)}".
ErrorRecord(task, prefix, text) ==
    [query |-> task.query, result |-> <<prefix>> \o text, citations |-> <<>>,
     extracted_links |-> {}, status |-> "error",
     search_type |-> task.type, websites |-> task.websites]

TimeoutText == <<"Search timeout - no results available">>

\* Mutant: the TimeoutError falls through to `except Exception` (str(TimeoutError()) is empty).
TimeoutAsErrorRecord(task) == ErrorRecord(task, "Error: ", EmptyText)

\* The record of the `except asyncio.TimeoutError` clause (lines 360-370).
TimeoutRecord(task) ==
    [query |-> task.query, result |-> TimeoutText, citations |-> <<>>,
     extracted_links |-> {}, status |-> "timeout",
     search_type |-> task.type, websites |-> task.websites]

-----------------------------------------------------------------------------
(* Parallel Search Executor: execute_workflow_with_progress / execute_workflow *)

TaskIds == DOMAIN search_tasks

Finished(i) == tstate[i] \notin {"new", "searching"}
NumFinished == Cardinality({i \in TaskIds : Finished(i)})
EarlierRunning(i) == \E j \in TaskIds : j < i /\ ~Finished(j)

\* What a progress-callback checkpoint can read: is_message_cancelled returns the
\* flag, or False when the store call raises (database_service.py lines 601-603).
GateReads(flag) == IF flag THEN {TRUE, FALSE} ELSE {FALSE}

\* Mutant: results are collected in the order the tasks finish (as_completed).
CompletionOrderSlot(i, finishedBefore) == finishedBefore + 1

\* asyncio.gather returns its results in the order of the awaitables it was given:
\* the result of awaitable i goes to slot i, however many finished before it.
GatherSlot(i, finishedBefore) == i

\* Mutant: gather without return_exceptions semantics kept apart; the first failure
\* cancels every sibling that has not finished, whose slot then holds CancelledError.
GatherCollectFailFast(results, i, raw) ==
    LET failed == \/ raw.kind = "exception"
                  \/ /\ raw.kind = "dict"
                     /\ "status" \in DOMAIN raw.value
                     /\ raw.value.status # "success"
    IN  [k \in DOMAIN results |->
            IF k = i THEN raw
            ELSE IF failed /\ results[k].kind = "none"
                 THEN Raised("CancelledError", EmptyText)
                 ELSE results[k]]

\* A finished awaitable hands its value to gather: only its own slot changes
\* (return_exceptions=True: an exception is a value like any other and no sibling
\* is cancelled).
GatherCollect(results, i, raw) ==
    [results EXCEPT ![GatherSlot(i, NumFinished)] = raw]

\* execute_search_task of execute_workflow_with_progress, from the first callback:
\* the callback raises when the gate reads the flag set, and `except Exception`
\* turns that into an error record.
CancelledRecord(task) == ErrorRecord(task, "Error: ", CancelledText)

\* execute_search_task of execute_workflow_with_progress, from the end of the
\* provider call: wait_for's TimeoutError, any other exception, or the answer
\* followed by the "search_completed" callback.
ProgressTaskResult(task, outcome, gateSaysCancelled) ==
    CASE outcome = "timeout" -> TimeoutRecord(task)
      [] outcome = "exception" -> ErrorRecord(task, "Error: ", ProviderErrorText)
      [] OTHER -> IF gateSaysCancelled THEN CancelledRecord(task)
                  ELSE SuccessRecord(task, SearchResponse(task))

\* execute_search_task of execute_workflow: the provider's answer, or whatever it
\* raises (no wait_for here: a timeout is the HTTP client's own TimeoutError, whose
\* str() is empty).
PlainTaskResult(task, outcome) ==
    CASE outcome = "timeout" -> Raised("TimeoutError", EmptyText)
      [] outcome = "exception" -> Raised("Exception", ProviderErrorText)
      [] OTHER -> Returned(SearchResponse(task))

\* The label under which tstate remembers how task i itself ended.
EndLabel(outcome, gateSaysCancelled) ==
    CASE outcome = "timeout" -> "timeout"
      [] outcome = "exception" -> "error"
      [] OTHER -> IF gateSaysCancelled THEN "cancelled" ELSE "success"

\* str(result) of a value gather collected that is no dict.
RawText(raw) == IF raw.kind = "exception" THEN raw.text ELSE EmptyText

\* The loop over gather's results in execute_workflow_with_progress (lines 394-407):
\* a dict is kept as it is, anything else becomes an error record of task i.
RECURSIVE ProgressLoop(_, _, _)
ProgressLoop(tasks, raws, i) ==
    IF i > Len(raws) THEN <<>>
    ELSE <<IF raws[i].kind = "dict" THEN raws[i].value
           ELSE ErrorRecord(tasks[i], "Unexpected error: ", RawText(raws[i]))>>
         \o ProgressLoop(tasks, raws, i + 1)

\* Mutant: only the searches that succeeded are kept.
ProcessProgressSuccessesOnly(tasks, raws) ==
    SelectSeq(ProgressLoop(tasks, raws, 1), LAMBDA r : r.status = "success")

ProcessProgress(tasks, raws) == ProgressLoop(tasks, raws, 1)

\* The loop over gather's results in execute_workflow (lines 161-183): a dict is
\* the provider's answer of task i, anything else is what the task raised.
RECURSIVE PlainLoop(_, _, _)
PlainLoop(tasks, raws, i) ==
    IF i > Len(raws) THEN <<>>
    ELSE <<IF raws[i].kind = "dict" THEN SuccessRecord(tasks[i], raws[i].value)
           ELSE ErrorRecord(tasks[i], "Error: ", RawText(raws[i]))>>
         \o PlainLoop(tasks, raws, i + 1)

ProcessPlain(tasks, raws) == PlainLoop(tasks, raws, 1)

ExecInit ==
    /\ mode \in {"progress", "plain"}
    /\ search_tasks \in SeqsUpTo(TaskPool, MaxTasks)
    /\ tstate = [i \in 1..Len(search_tasks) |-> "new"]
    /\ search_results = [i \in 1..Len(search_tasks) |-> NoResult]
    /\ completed_results = <<>>
    /\ epc = "gather"
    /\ turn_cancelled = FALSE
    /\ out_of_order = FALSE

\* cancel_message sets the flag while the batch runs (only the progress variant
\* ever reads it).
CancelTurn ==
    /\ epc = "gather"
    /\ mode = "progress"
    /\ ~turn_cancelled
    /\ turn_cancelled' = TRUE
    /\ UNCHANGED <<mode, search_tasks, tstate, search_results, completed_results, epc, out_of_order>>
    /\ ExecOnly

\* Task i runs up to its provider call.
StartSearchTask(i) ==
    /\ epc = "gather"
    /\ tstate[i] = "new"
    /\ \/ /\ mode = "plain"
          /\ tstate' = [tstate EXCEPT ![i] = "searching"]
          /\ UNCHANGED search_results
       \/ /\ mode = "progress"
          /\ \E g \in GateReads(turn_cancelled) :
                IF g
                THEN /\ tstate' = [tstate EXCEPT ![i] = "cancelled"]
                     /\ search_results' =
                          GatherCollect(search_results, i, Returned(CancelledRecord(search_tasks[i])))
                ELSE /\ tstate' = [tstate EXCEPT ![i] = "searching"]
                     /\ UNCHANGED search_results
    /\ out_of_order' = (out_of_order \/ (Finished(i)' /\ EarlierRunning(i)))
    /\ UNCHANGED <<mode, search_tasks, completed_results, epc, turn_cancelled>>
    /\ ExecOnly

\* The provider call of task i ends and the task finishes.
FinishSearchTask(i) ==
    /\ epc = "gather"
    /\ tstate[i] = "searching"
    /\ \E outcome \in SearchOutcomes :
         \/ /\ mode = "plain"
            /\ tstate' = [tstate EXCEPT ![i] = EndLabel(outcome, FALSE)]
            /\ search_results' =
                 GatherCollect(search_results, i, PlainTaskResult(search_tasks[i], outcome))
         \/ /\ mode = "progress"
            /\ \E g \in GateReads(turn_cancelled) :
                 /\ tstate' = [tstate EXCEPT ![i] = EndLabel(outcome, g)]
                 /\ search_results' =
                      GatherCollect(search_results, i,
                                    Returned(ProgressTaskResult(search_tasks[i], outcome, g)))
    /\ out_of_order' = (out_of_order \/ EarlierRunning(i))
    /\ UNCHANGED <<mode, search_tasks, completed_results, epc, turn_cancelled>>
    /\ ExecOnly

\* The fan-in: gather returns once every awaitable has finished, the results are
\* processed, and (progress variant) the "workflow_completed" callback runs, which
\* raises out of the executor when the gate reads the flag set.
FanIn ==
    /\ epc = "gather"
    /\ \A i \in TaskIds : Finished(i)
    /\ \/ /\ mode = "plain"
          /\ completed_results' = ProcessPlain(search_tasks, search_results)
          /\ epc' = "returned"
       \/ /\ mode = "progress"
          /\ completed_results' = ProcessProgress(search_tasks, search_results)
          /\ \E g \in GateReads(turn_cancelled) :
                epc' = IF g THEN "raised" ELSE "returned"
    /\ UNCHANGED <<mode, search_tasks, tstate, search_results, turn_cancelled, out_of_order>>
    /\ ExecOnly

ExecNext ==
    \/ CancelTurn
    \/ \E i \in TaskIds : StartSearchTask(i)
    \/ \E i \in TaskIds : FinishSearchTask(i)
    \/ FanIn

-----------------------------------------------------------------------------
(* Query Expander, Source Mapper and task builder:                          *)
(* OpenAIService.generate_and_map_research_queries / map_queries_to_websites *)

\* The classifier's restated query.
RouterQuery == "restated query"

\* The sub-query texts the LLM may produce.
QueryPool == {"qa", "qb"}

Site(n, d) == [name |-> n, domain |-> d]
\* The source catalogs the caller may supply.
Catalogs == {<<>>, <<Site("A", "a.org")>>, <<Site("A", "a.org"), Site("C", "c.org")>>}

\* The source subsets the LLM may assign to a query.
WebsiteChoices == {<<>>, <<"b.org">>}
MappingPool == {[query |-> q, websites |-> w] : q \in QueryPool, w \in WebsiteChoices}

Unbound == [bound |-> FALSE, value |-> <<>>]
Bound(v) == [bound |-> TRUE, value |-> v]

NotCalled == [called |-> FALSE, ok |-> FALSE, value |-> <<>>]
CallFailed == [called |-> TRUE, ok |-> FALSE, value |-> <<>>]
CallReturned(v) == [called |-> TRUE, ok |-> TRUE, value |-> v]

\* all_websites = [site["domain"] for site in dynamic_websites]
AllWebsites(sites) == [i \in 1..Len(sites) |-> sites[i].domain]

\* The default mapping: every query, in order, mapped to every catalog domain.
DefaultMapping(gq, sites) ==
    [i \in 1..Len(gq) |-> [query |-> gq[i], websites |-> AllWebsites(sites)]]

\* Mutant: the count of the LLM's mappings is not checked.
MapWithoutCardinalityCheck(gq, sites, response) ==
    IF ~response.ok THEN DefaultMapping(gq, sites) ELSE response.value

\* map_queries_to_websites: the LLM's mappings as they came (query text and
\* websites are copied from the response), unless their number differs from the
\* number of queries or the call raised.
MapQueriesToWebsites(gq, sites, response) ==
    IF ~response.ok THEN DefaultMapping(gq, sites)
    ELSE IF Len(response.value) # Len(gq) THEN DefaultMapping(gq, sites)
    ELSE response.value

\* The first loop of the task builder: one general_web task per query.
GeneralTasks(gq) == [i \in 1..Len(gq) |-> GeneralTask(gq[i])]

\* Mutant: a domain_filtered task for every mapping, with websites or without.
DomainTasksUnfiltered(mappings) ==
    [i \in 1..Len(mappings) |-> DomainTask(mappings[i].query, mappings[i].websites)]

\* The second loop: one domain_filtered task per mapping with websites.
RECURSIVE DomainTasks(_)
DomainTasks(mappings) ==
    IF mappings = <<>> THEN <<>>
    ELSE LET m == Head(mappings)
         IN  (IF m.websites # <<>> THEN <<DomainTask(m.query, m.websites)>> ELSE <<>>)
             \o DomainTasks(Tail(mappings))

BuildSearchTasks(gq, mappings) == GeneralTasks(gq) \o DomainTasks(mappings)

PlanInit ==
    /\ ppc = "expand"
    /\ router_decision \in {"Provide_a_List", "Search_the_Internet"}
    /\ dynamic_websites \in Catalogs
    /\ expansion = NotCalled
    /\ queries = Unbound
    /\ generated_queries = <<RouterQuery>>
    /\ mapping_response = NotCalled
    /\ query_mappings = <<>>
    /\ plan_tasks = <<>>

\* Lines 74-98: the expansion call.  It returns the parsed query list, which is
\* used as it is, or raises (transport error, unparsable output), and the except
\* clause falls back to [router_query].
ExpandQueries ==
    /\ ppc = "expand"
    /\ \/ \E qs \in SeqsUpTo(QueryPool, MaxGenerated) :
             /\ expansion' = CallReturned(qs)
             /\ queries' = Bound(qs)
             /\ generated_queries' = qs
       \/ /\ expansion' = CallFailed
          /\ queries' = queries
          /\ generated_queries' = <<RouterQuery>>
    /\ ppc' = "debug"
    /\ UNCHANGED <<router_decision, dynamic_websites, mapping_response, query_mappings, plan_tasks>>
    /\ PlanOnly

\* Line 100: print(f"... ({len(queries)}): {queries}") reads the local `queries`,
\* which only line 90 assigns: after a failed expansion call it is unbound and the
\* read raises UnboundLocalError out of the function.
DebugPrintQueries ==
    /\ ppc = "debug"
    /\ \/ /\ queries.bound
          /\ ppc' = "map"
       \/ /\ ~queries.bound
          /\ ppc' = "raised"
    /\ UNCHANGED <<router_decision, dynamic_websites, expansion, queries, generated_queries,
                   mapping_response, query_mappings, plan_tasks>>
    /\ PlanOnly

\* Line 103: the mapping call and map_queries_to_websites' handling of it.
MapQueries ==
    /\ ppc = "map"
    /\ \E resp \in {CallFailed} \cup {CallReturned(ms) : ms \in SeqsUpTo(MappingPool, MaxMappings)} :
         /\ mapping_response' = resp
         /\ query_mappings' = MapQueriesToWebsites(generated_queries, dynamic_websites, resp)
    /\ ppc' = "build"
    /\ UNCHANGED <<router_decision, dynamic_websites, expansion, queries, generated_queries, plan_tasks>>
    /\ PlanOnly

\* Lines 104-122: the task list.
BuildTasks ==
    /\ ppc = "build"
    /\ plan_tasks' = BuildSearchTasks(generated_queries, query_mappings)
    /\ ppc' = "returned"
    /\ UNCHANGED <<router_decision, dynamic_websites, expansion, queries, generated_queries,
                   mapping_response, query_mappings>>
    /\ PlanOnly

PlanNext == ExpandQueries \/ DebugPrintQueries \/ MapQueries \/ BuildTasks

-----------------------------------------------------------------------------
(* The conversation store and the Cancellation Gate:                        *)
(* DatabaseService.store_message / cancel_message / is_message_cancelled    *)
(* Every call runs in a transaction of its own (get_session); what it has   *)
(* inserted becomes visible to the other calls when it commits, so an       *)
(* insert takes effect in the step that commits it.                         *)

SessionId == "s1"
Callers == 1..NumCallers

\* f"msg_{datetime.now().strftime('%Y%m%d_%H%M%S')}_{session_id}": the clock to
\* the second, and the session.
MessageId(second, sid) == <<"msg", second, sid>>
NullId == <<"null", 0, "">>

NoticeText == <<"Response generation stopped by user.">>

\* cancellation_timestamp of a row that was never cancelled (NULL).
NoTimestamp == 0 - 1
\* request.get("reason", "User requested cancellation"), and a reason a caller gives.
DefaultReason == "User requested cancellation"
Reasons == {DefaultReason, "superseded"}

Row(id, sid, role, content, order, replyTo, type) ==
    [message_id |-> id, session_id |-> sid, role |-> role, content |-> content,
     message_order |-> order, reply_to |-> replyTo, type |-> type, is_cancelled |-> FALSE,
     cancellation_reason |-> "", cancellation_timestamp |-> NoTimestamp]

\* SET is_cancelled = TRUE, cancellation_timestamp = NOW(), cancellation_reason = :reason
\* Mutant: the update flips the flag.
CancelRowToggle(row, reason, now) == [row EXCEPT !.is_cancelled = ~row.is_cancelled]
CancelRow(row, reason, now) ==
    [row EXCEPT !.is_cancelled = TRUE, !.cancellation_reason = reason,
                !.cancellation_timestamp = now]

Max(S) == CHOOSE x \in S : \A y \in S : y <= x

\* SELECT COALESCE(MAX(message_order), 0) + 1 FROM chat_messages WHERE session_id = :session_id
NextMessageOrder(rows, sid) ==
    LET orders == {r.message_order : r \in {x \in rows : x.session_id = sid}}
    IN  (IF orders = {} THEN 0 ELSE Max(orders)) + 1

\* message_id is the primary key of chat_messages: an INSERT of a key that a
\* committed row already has raises.
KeyTaken(rows, id) == \E r \in rows : r.message_id = id

\* SELECT message_id FROM chat_messages WHERE reply_to = :message_id AND type = 'cancelled'
Notices(rows, id) == {r \in rows : r.reply_to = id /\ r.type = "cancelled"}

UserRows == {r \in chat_messages : r.role = "user"}

GateIdle == [pc |-> "idle", message_id |-> NullId, is_cancelled |-> FALSE,
             new_id |-> NullId, message_order |-> 0, ret |-> FALSE]

\* The history of the gate calls that read the flag set: whether each added a
\* turn (the first MaxCalls of them are kept).
RecordCall(history, added) ==
    IF Len(history) < MaxCalls THEN Append(history, added) ELSE history

GateInit ==
    /\ chat_messages = {}
    /\ clock = 0
    /\ gate = [p \in Callers |-> GateIdle]
    /\ notice_calls = <<>>

\* The clock reaches the next second.
Tick ==
    /\ clock < MaxClock
    /\ clock' = clock + 1
    /\ UNCHANGED <<chat_messages, gate, notice_calls>>
    /\ GateOnly

\* store_message(session_id, "user", content, type="text"): the endpoint stores
\* the user turn of the request.
StoreUserMessage ==
    /\ UserRows = {}
    /\ ~KeyTaken(chat_messages, MessageId(clock, SessionId))
    /\ chat_messages' = chat_messages \cup
         {Row(MessageId(clock, SessionId), SessionId, "user", <<"question">>,
              NextMessageOrder(chat_messages, SessionId), NullId, "text")}
    /\ UNCHANGED <<clock, gate, notice_calls>>
    /\ GateOnly

\* cancel_message: UPDATE ... SET is_cancelled = TRUE, ... WHERE message_id = :id AND role = 'user'
CancelMessage ==
    /\ \E u \in UserRows :
         chat_messages' = (chat_messages \ {u}) \cup {CancelRow(u, DefaultReason, clock)}
    /\ UNCHANGED <<clock, gate, notice_calls>>
    /\ GateOnly

\* is_message_cancelled(message_id, session_id), lines 545-558: the flag is read;
\* the call returns it unless it is set (a session id is given and the notice is
\* not skipped).
GateSelect(p) ==
    /\ gate[p].pc = "idle"
    /\ \E u \in UserRows :
         \/ /\ ~u.is_cancelled
            /\ gate' = [gate EXCEPT ![p] = [GateIdle EXCEPT !.pc = "returned",
                                            !.message_id = u.message_id, !.ret = FALSE]]
         \/ /\ u.is_cancelled
            /\ gate' = [gate EXCEPT ![p] = [GateIdle EXCEPT !.pc = "selected",
                                            !.message_id = u.message_id, !.is_cancelled = TRUE]]
    /\ UNCHANGED <<chat_messages, clock, notice_calls>>
    /\ GateOnly

\* Lines 559-568: the existence check, and the new notice's id from the clock.
GateCheck(p) ==
    /\ gate[p].pc = "selected"
    /\ \/ /\ Notices(chat_messages, gate[p].message_id) # {}
          /\ gate' = [gate EXCEPT ![p].pc = "returned", ![p].ret = gate[p].is_cancelled]
          /\ notice_calls' = RecordCall(notice_calls, FALSE)
       \/ /\ Notices(chat_messages, gate[p].message_id) = {}
          /\ gate' = [gate EXCEPT ![p].pc = "checked",
                                  ![p].new_id = MessageId(clock, SessionId)]
          /\ UNCHANGED notice_calls
    /\ UNCHANGED <<chat_messages, clock>>
    /\ GateOnly

\* Lines 569-575: the order query.
GateOrder(p) ==
    /\ gate[p].pc = "checked"
    /\ gate' = [gate EXCEPT ![p].pc = "ordered",
                            ![p].message_order = NextMessageOrder(chat_messages, SessionId)]
    /\ UNCHANGED <<chat_messages, clock, notice_calls>>
    /\ GateOnly

\* Lines 577-603: the INSERT of the notice and the commit; a key that is taken
\* raises, the transaction is rolled back and the call returns False.
GateInsert(p) ==
    /\ gate[p].pc = "ordered"
    /\ \/ /\ KeyTaken(chat_messages, gate[p].new_id)
          /\ gate' = [gate EXCEPT ![p].pc = "returned", ![p].ret = FALSE]
          /\ notice_calls' = RecordCall(notice_calls, FALSE)
          /\ UNCHANGED chat_messages
       \/ /\ ~KeyTaken(chat_messages, gate[p].new_id)
          /\ chat_messages' = chat_messages \cup
               {Row(gate[p].new_id, SessionId, "assistant", NoticeText,
                    gate[p].message_order, gate[p].message_id, "cancelled")}
          /\ gate' = [gate EXCEPT ![p].pc = "returned", ![p].ret = gate[p].is_cancelled]
          /\ notice_calls' = RecordCall(notice_calls, TRUE)
    /\ UNCHANGED clock
    /\ GateOnly

\* The caller has its answer and may call again.
GateReturn(p) ==
    /\ gate[p].pc = "returned"
    /\ gate' = [gate EXCEPT ![p] = GateIdle]
    /\ UNCHANGED <<chat_messages, clock, notice_calls>>
    /\ GateOnly

GateNext ==
    \/ Tick
    \/ StoreUserMessage
    \/ CancelMessage
    \/ \E p \in Callers : GateSelect(p)
    \/ \E p \in Callers : GateCheck(p)
    \/ \E p \in Callers : GateOrder(p)
    \/ \E p \in Callers : GateInsert(p)
    \/ \E p \in Callers : GateReturn(p)

\* One caller only: its calls of the gate follow one another.
GateSeqNext ==
    \/ Tick
    \/ StoreUserMessage
    \/ CancelMessage
    \/ GateSelect(1)
    \/ GateCheck(1)
    \/ GateOrder(1)
    \/ GateInsert(1)
    \/ GateReturn(1)

-----------------------------------------------------------------------------
(* Concurrent requests of one session: store_message calls that overlap,   *)
(* a gate call that inserts a Cancellation Notice beside them, and          *)
(* POST /chat/cancel (cancel_request, src/src/api/endpoints.py) with        *)
(* DatabaseService.cancel_message and cancel_session_messages.              *)
(* A store_message call takes two steps: its order query with the id it     *)
(* makes from the clock, and its INSERT with the commit.                    *)

\* The store_message calls made, any of which may overlap.
NumWriters == 2
Writers == 1..NumWriters

WriterIdle == [pc |-> "idle", role |-> "", content |-> <<>>, reply_to |-> NullId, type |-> "",
               message_order |-> 0, message_id |-> NullId]

\* request.get("session_id") of a body without the key; NullId stands for a
\* missing message_id.
NoSession == ""

\* The JSON answer of cancel_request, or the HTTPException it raised.
Response(statusCode, status, cancelledCount) ==
    [status_code |-> statusCode, status |-> status, cancelled_count |-> cancelledCount]
NoResponse == Response(0, "", 0)
HTTPException(statusCode, detail) == Response(statusCode, detail, 0)

\* UPDATE ... WHERE message_id = :message_id AND role = 'user'; rowcount.
CancelMessageUpdate(rows, id, reason, now) ==
    LET hit == {r \in rows : r.message_id = id /\ r.role = "user"}
    IN  [rows |-> (rows \ hit) \cup {CancelRow(r, reason, now) : r \in hit},
         rowcount |-> Cardinality(hit)]

\* UPDATE ... WHERE session_id = :session_id AND role = 'user' AND is_cancelled = FALSE; rowcount.
CancelSessionMessages(rows, sid, reason, now) ==
    LET hit == {r \in rows : r.session_id = sid /\ r.role = "user" /\ ~r.is_cancelled}
    IN  [rows |-> (rows \ hit) \cup {CancelRow(r, reason, now) : r \in hit},
         rowcount |-> Cardinality(hit)]

\* except Exception as e: ... raise HTTPException(status_code=500, ...): the
\* clause takes every exception raised in the try block, the HTTPException of
\* line 117 included.
ExceptException(raised) == HTTPException(500, "Failed to cancel request")

SessionInit ==
    /\ writer = [w \in Writers |-> WriterIdle]
    /\ cancel_response = NoResponse

\* store_message, lines 99-108: the order query and the id from the clock.
StoreBegin(w, role, replyTo, type) ==
    /\ writer[w].pc = "idle"
    /\ writer' = [writer EXCEPT ![w] =
            [pc |-> "ordered", role |-> role,
             content |-> IF role = "user" THEN <<"question">> ELSE <<"answer">>,
             reply_to |-> replyTo, type |-> type,
             message_order |-> NextMessageOrder(chat_messages, SessionId),
             message_id |-> MessageId(clock, SessionId)]]
    /\ UNCHANGED <<chat_messages, clock, gate, notice_calls, cancel_response>>
    /\ SessionOnly

\* store_message, lines 109-143: the INSERT and the commit; a key that is
\* taken raises and the call re-raises.
StoreInsert(w) ==
    /\ writer[w].pc = "ordered"
    /\ IF KeyTaken(chat_messages, writer[w].message_id)
       THEN /\ writer' = [writer EXCEPT ![w].pc = "raised"]
            /\ UNCHANGED chat_messages
       ELSE /\ chat_messages' = chat_messages \cup
                 {Row(writer[w].message_id, SessionId, writer[w].role, writer[w].content,
                      writer[w].message_order, writer[w].reply_to, writer[w].type)}
            /\ writer' = [writer EXCEPT ![w].pc = "stored"]
    /\ UNCHANGED <<clock, gate, notice_calls, cancel_response>>
    /\ SessionOnly

\* cancel_request, lines 109-138.
CancelEndpoint(messageId, sessionId, reason) ==
    /\ IF messageId = NullId /\ sessionId = NoSession
       THEN /\ cancel_response' =
                 ExceptException(HTTPException(400, "Either message_id or session_id is required"))
            /\ UNCHANGED chat_messages
       ELSE LET byMessage == CancelMessageUpdate(chat_messages, messageId, reason, clock)
                bySession == CancelSessionMessages(chat_messages, sessionId, reason, clock)
                cancelled_count == IF messageId # NullId
                                   THEN (IF byMessage.rowcount > 0 THEN 1 ELSE 0)
                                   ELSE bySession.rowcount
            IN  /\ chat_messages' = IF messageId # NullId THEN byMessage.rows ELSE bySession.rows
                /\ cancel_response' =
                     Response(200, IF cancelled_count > 0 THEN "success" ELSE "no_active_requests",
                              cancelled_count)
    /\ UNCHANGED <<clock, gate, notice_calls, writer>>
    /\ SessionOnly

\* The ids a request may carry: none, or the id of a stored turn.
RequestIds == {NullId} \cup {r.message_id : r \in chat_messages}

SessionNext ==
    \/ Tick
    \/ \E w \in Writers : StoreBegin(w, "user", NullId, "text")
    \/ \E w \in Writers : \E u \in UserRows, type \in {"text", "partial"} :
          StoreBegin(w, "assistant", u.message_id, type)
    \/ \E w \in Writers : StoreInsert(w)
    \/ \E id \in RequestIds, sid \in {NoSession, SessionId}, reason \in Reasons :
          CancelEndpoint(id, sid, reason)
    \/ GateSelect(1)
    \/ GateCheck(1)
    \/ GateOrder(1)
    \/ GateInsert(1)
    \/ GateReturn(1)

-----------------------------------------------------------------------------
(* The pipeline drivers: chat_stream_summary.generate_stream and chat_send  *)
(* (src/src/api/endpoints.py), with route_research_request_with_progress    *)
(* (src/src/core/workflows.py) and get_router_decision                      *)
(* (src/src/services/openai_service.py).                                    *)
(* One turn is driven per run.  The driver's own calls of the store are     *)
(* taken in one step each (no other call of the turn runs beside them).     *)
(* The search tasks run side by side, one caller of the gate per task: the  *)
(* gate call of a task's first callback takes two steps, its reads and its  *)
(* INSERT, so that the calls of several tasks overlap.                      *)

\* The longest chunk sequence the synthesis stream is taken to yield.
MaxChunks == 2

\* The chunks a synthesis stream may yield: a word, or white space only.
ChunkPool == {"Alpha", " "}
WhiteSpace == {" "}
SummaryStreams == SeqsUpTo(ChunkPool, MaxChunks)
\* The text generate_research_summary_streaming yields when its call raised,
\* before the first chunk or between two chunks.
FallbackSummary == "Research completed for: N/A. Found 0 search results."
\* What the synthesis stream may yield: chunks to its end, or chunks up to a
\* failure and then the fallback text.
SynthesisStreams ==
    SummaryStreams \cup {Append(c, FallbackSummary) : c \in SeqsUpTo(ChunkPool, MaxChunks - 1)}

\* str.strip(): leading and trailing white space is removed.
RECURSIVE LStrip(_)
LStrip(text) ==
    IF text = <<>> THEN <<>>
    ELSE IF Head(text) \in WhiteSpace THEN LStrip(Tail(text)) ELSE text
RECURSIVE RStrip(_)
RStrip(text) ==
    IF text = <<>> THEN <<>>
    ELSE IF text[Len(text)] \in WhiteSpace THEN RStrip(SubSeq(text, 1, Len(text) - 1)) ELSE text
Strip(text) == RStrip(LStrip(text))

\* full_summary + "\n\n[Generation stopped by user]"
TruncationMarker == "[Generation stopped by user]"
PartialContent(text) == Append(text, TruncationMarker)

\* The tools the classifier may choose (TOOLS), and the decision without a tool.
ToolNames == {"Provide_a_List", "Search_the_Internet"}
DirectResponse == "direct_response"
\* The texts the classifier may give as the restated query or as its answer.
ContentPool == {RouterQuery, "Provide_a_List"}

\* What the chat completion call of the classifier may end in: a timeout, a
\* transport error, a tool call (whose arguments are JSON with a "query" key,
\* JSON without it, or no JSON at all), or a plain message.
ToolArguments ==
    {[json |-> TRUE, has_query |-> TRUE, query |-> c] : c \in ContentPool}
        \cup {[json |-> TRUE, has_query |-> FALSE, query |-> ""],
              [json |-> FALSE, has_query |-> FALSE, query |-> ""]}
RouterResponses ==
    {[kind |-> "timeout"], [kind |-> "transport_error"]}
        \cup {[kind |-> "tool_call", name |-> n, arguments |-> a] :
                 n \in ToolNames, a \in ToolArguments}
        \cup {[kind |-> "message", content |-> c] : c \in ContentPool}

\* The failure sentinel, and a decision.
None == [type |-> "None", content |-> ""]
Decision(type, content) == [type |-> type, content |-> content]

\* json.loads(tool_call.function.arguments)["query"]
ParseQuery(arguments) ==
    IF ~arguments.json THEN Raised("JSONDecodeError", <<"invalid json">>)
    ELSE IF ~arguments.has_query THEN Raised("KeyError", <<"query">>)
    ELSE Returned(arguments.query)

\* Mutant: only the timeout is caught; any other exception leaves the function.
GetRouterDecisionTimeoutOnly(response) ==
    IF response.kind = "timeout" THEN Returned(None)
    ELSE IF response.kind = "transport_error"
         THEN Raised("APIConnectionError", <<"transport error">>)
    ELSE IF response.kind = "tool_call"
         THEN LET parsed == ParseQuery(response.arguments)
              IN  IF parsed.kind = "exception" THEN parsed
                  ELSE Returned(Decision(response.name, parsed.value))
    ELSE Returned(Decision(DirectResponse, response.content))

\* get_router_decision: the outcome of the call, as the value returned or
\* the exception raised.
GetRouterDecision(response) ==
    IF response.kind = "timeout" THEN Returned(None)
    ELSE IF response.kind = "transport_error" THEN Returned(None)
    ELSE IF response.kind = "tool_call"
         THEN LET parsed == ParseQuery(response.arguments)
              IN  IF parsed.kind = "exception" THEN Returned(None)
                  ELSE Returned(Decision(response.name, parsed.value))
    ELSE Returned(Decision(DirectResponse, response.content))

\* Events of the stream (and responses of /chat/send).
Event(type, message, assistantMessage) ==
    [type |-> type, message |-> message, assistant_message |-> assistantMessage]
NoEvent == Event("none", "", NullId)

\* The row of the turn, and its flag.
TurnRows(rows, id) == {r \in rows : r.message_id = id}
FlagSet(rows, id) == \E r \in TurnRows(rows, id) : r.is_cancelled


\* store_message in one step: the new row is committed unless its id, made of
\* the clock second and the session, is taken (the INSERT raises).
InsertMessage(rows, id, role, content, replyTo, type) ==
    IF KeyTaken(rows, id)
    THEN [ok |-> FALSE, rows |-> rows, message_id |-> NullId]
    ELSE [ok |-> TRUE,
          rows |-> rows \cup {Row(id, SessionId, role, content,
                                  NextMessageOrder(rows, SessionId), replyTo, type)},
          message_id |-> id]
StoreMessage(rows, now, role, content, replyTo, type) ==
    InsertMessage(rows, MessageId(now, SessionId), role, content, replyTo, type)

\* Mutant: the call that has inserted the notice lets the turn proceed.
IsMessageCancelledProceeds(rows, now, id, skip) ==
    IF TurnRows(rows, id) = {} THEN [ret |-> FALSE, rows |-> rows, read |-> FALSE]
    ELSE IF ~FlagSet(rows, id) THEN [ret |-> FALSE, rows |-> rows, read |-> FALSE]
    ELSE IF skip \/ Notices(rows, id) # {} THEN [ret |-> TRUE, rows |-> rows, read |-> TRUE]
    ELSE LET stored == StoreMessage(rows, now, "assistant", NoticeText, id, "cancelled")
         IN  [ret |-> FALSE, rows |-> stored.rows, read |-> TRUE]
\* is_message_cancelled(message_id, session_id, skip_cancellation_message) in one
\* step: what it returns, the rows afterwards, and what its SELECT read.
IsMessageCancelled(rows, now, id, skip) ==
    IF TurnRows(rows, id) = {} THEN [ret |-> FALSE, rows |-> rows, read |-> FALSE]
    ELSE IF ~FlagSet(rows, id) THEN [ret |-> FALSE, rows |-> rows, read |-> FALSE]
    ELSE IF skip \/ Notices(rows, id) # {} THEN [ret |-> TRUE, rows |-> rows, read |-> TRUE]
    ELSE LET stored == StoreMessage(rows, now, "assistant", NoticeText, id, "cancelled")
         IN  [ret |-> stored.ok, rows |-> stored.rows, read |-> TRUE]

\* get_cancellation_message: the latest notice of the turn, or null.
GetCancellationMessage(rows, id) ==
    LET notices == Notices(rows, id)
    IN  IF notices = {} THEN NullId
        ELSE (CHOOSE n \in notices :
                  \A m \in notices : m.message_id[2] <= n.message_id[2]).message_id

\* The driver states of the design.
DriverState(label) ==
    CASE label \in {"start", "send_start"} -> "Start"
      [] label \in {"chk_received", "chk_before_rag", "rag", "chk_after_rag", "send_rag"}
            -> "Received"
      [] label \in {"router", "router_call", "chk_after_router", "after_router",
                    "send_router", "send_router_call", "send_after_router"} -> "Classifying"
      [] label \in {"chk_direct", "direct", "send_direct"} -> "Responding"
      [] label \in {"chk_research", "route", "cb_query_generation", "expand", "send_expand"}
            -> "Expanding"
      [] label \in {"map", "send_map"} -> "Mapping"
      [] label \in {"cb_search_execution", "gather", "send_search", "send_gather"}
            -> "Searching"
      [] label \in {"chk_after_research", "after_research", "stream", "send_synth"}
            -> "Synthesizing"
      [] OTHER -> "Ended"

NotCancelled == [pc |-> "none", calls |-> {}, inflight |-> {}]

\* Positions of a search task within execute_search_task.
TaskEnded == {"success", "timeout", "error"}
\* A provider call that is outstanding: one that will be answered ("searching"),
\* and one that the provider never responds to ("hung").
InFlightStates == {"searching", "hung"}
InFlight == {p \in Callers : task_pc[p] \in InFlightStates}

DriverInit ==
    /\ endpoint \in {"stream", "send"}
    /\ dpc = "start"
    /\ user_message = NullId
    /\ router_answer = Returned(None)
    /\ request_status = "none"
    /\ query_log_ids = 0
    /\ research_result = "unset"
    /\ task_pc = [p \in Callers |-> "absent"]
    /\ summary_stream = <<>>
    /\ full_summary = <<>>
    /\ forwarded = <<>>
    /\ terminal = NoEvent
    /\ ext_calls = {}
    /\ late_calls = {}
    /\ observed = FALSE
    /\ consulted = FALSE
    /\ cancelled_in = NotCancelled
    /\ query_logs = [p \in Callers |-> "none"]
    /\ dispatched = {}
    /\ failures = {}
    /\ events = <<>>

\* An external call is issued.
Issue(call, seen) ==
    /\ ext_calls' = ext_calls \cup {call}
    /\ late_calls' = IF seen THEN late_calls \cup {call} ELSE late_calls

\* The events that end a stream.
TerminalTypes == {"completed", "cancelled", "error"}

\* yield f"data: {json.dumps({'type': ...})}": events are sent.
Emit(types) == events' = events \o types

\* The turn ends: the events before the terminal one and the terminal event are
\* sent (or the response is returned), and the generator returns.
EndAfter(before, type, message, assistantMessage) ==
    /\ terminal' = Event(type, message, assistantMessage)
    /\ Emit(Append(before, type))
    /\ dpc' = "done"

\* Mutant: the terminal event is sent and the generator goes on.
EndNoReturn(type, message, assistantMessage) ==
    /\ terminal' = Event(type, message, assistantMessage)
    /\ Emit(<<type>>)
    /\ dpc' = dpc
\* yield of a terminal event, then return.
End(type, message, assistantMessage) == EndAfter(<<>>, type, message, assistantMessage)

\* store_query_log: the row is inserted with status 'pending'.
StoreQueryLog == "pending"

\* Mutant: the status argument is left to its default, 'completed'.
UpdateQueryLogDefault(status, resultStatus) == "completed"
\* update_query_log(query_id, results, citations, status): the row's status is
\* overwritten with the status given, a search result's status.
UpdateQueryLog(status, resultStatus) == resultStatus

\* What a step of the driver leaves alone, by group.
dStore == <<user_message, router_answer, request_status, query_log_ids>>
dSearch == <<research_result, task_pc>>
dSynth == <<summary_stream, full_summary, forwarded>>
dCalls == <<ext_calls, late_calls>>
gCallers == <<gate>>
dHist == <<query_logs, dispatched, failures>>

\* A cancellation checkpoint of generate_stream:
\*   if await db_service.is_message_cancelled(message_id, session_id):
\*       cancellation_message = await db_service.get_cancellation_message(message_id)
\*       yield {'type': 'cancelled', 'message': ..., 'assistant_message': cancellation_message}
\*       return
Checkpoint(label, message, next) ==
    /\ endpoint = "stream"
    /\ dpc = label
    /\ LET g == IsMessageCancelled(chat_messages, clock, user_message, FALSE)
       IN  /\ chat_messages' = g.rows
           /\ observed' = (observed \/ g.read)
           /\ IF g.ret
              THEN End("cancelled", message, GetCancellationMessage(g.rows, user_message))
              ELSE dpc' = next /\ UNCHANGED <<terminal, events>>
    /\ consulted' = TRUE
    /\ UNCHANGED <<endpoint, dStore, dSearch, dSynth, dCalls, cancelled_in, clock, gCallers,
                   notice_calls, dHist>>
    /\ DriverOnly

\* Lines 154-161: the user turn is stored.
StreamStoreUser ==
    /\ endpoint = "stream"
    /\ dpc = "start"
    /\ LET stored == StoreMessage(chat_messages, clock, "user", <<"question">>, NullId, "text")
       IN  /\ chat_messages' = stored.rows
           /\ user_message' = stored.message_id
           /\ IF stored.ok
              THEN /\ dpc' = "chk_received"
                   /\ Emit(<<"user_message">>)
                   /\ UNCHANGED <<terminal, failures>>
              ELSE /\ End("error", "An error occurred during processing", NullId)
                   /\ failures' = failures \cup {"store"}
    /\ UNCHANGED <<endpoint, router_answer, request_status, query_log_ids, dSearch, dSynth,
                   dCalls, observed, consulted, cancelled_in, clock, gCallers, notice_calls, query_logs, dispatched>>
    /\ DriverOnly

\* Lines 163-168.
CheckBeforeProcessing ==
    Checkpoint("chk_received", "Request cancelled before processing", "chk_before_rag")

\* Lines 170-183: the recent messages hold the turn just stored.
CheckBeforeRag ==
    Checkpoint("chk_before_rag", "Request cancelled before RAG call", "rag")

\* Lines 185-187 and 196-198: the catalog retrieval call and the validation of
\* what it returned; a failure of either reaches the outer except clause.
StreamCallRag ==
    /\ endpoint = "stream"
    /\ dpc = "rag"
    /\ Issue("rag", observed)
    /\ \/ /\ dpc' = "chk_after_rag"
          /\ Emit(<<"status">>)
          /\ UNCHANGED <<terminal, failures>>
       \/ /\ EndAfter(<<"status">>, "error", "An error occurred during processing", NullId)
          /\ failures' = failures \cup {"rag"}
    /\ UNCHANGED <<endpoint, dStore, dSearch, dSynth, observed, consulted, cancelled_in,
                   chat_messages, clock, gCallers, notice_calls, query_logs, dispatched>>
    /\ DriverOnly

\* Lines 189-194.
CheckAfterRag ==
    Checkpoint("chk_after_rag", "Request cancelled after RAG call", "router")

\* openai_service.py lines 34-43: make_openai_call awaits nothing; its body is the
\* synchronous client call, which runs on the event loop's only thread.  Until
\* it returns no other coroutine of the server runs, the timer of wait_for
\* included.
LoopBlocked == dpc \in {"router_call", "send_router_call"}

\* Lines 200-203: the classifier call is entered.
StreamRouterCall ==
    /\ endpoint = "stream"
    /\ dpc = "router"
    /\ Issue("router", observed)
    /\ dpc' = "router_call"
    /\ Emit(<<"status">>)
    /\ UNCHANGED <<endpoint, dStore, dSearch, dSynth, terminal, observed, consulted,
                   cancelled_in, chat_messages, clock, gCallers, notice_calls, dHist>>
    /\ DriverOnly

\* Lines 203-204: the classifier call returns.
StreamRouter ==
    /\ endpoint = "stream"
    /\ dpc = "router_call"
    /\ UNCHANGED dCalls
    /\ \E response \in RouterResponses :
         /\ router_answer' = GetRouterDecision(response)
         /\ IF router_answer'.kind = "exception"
            THEN End("error", "An error occurred during processing", NullId)
            ELSE dpc' = "chk_after_router" /\ UNCHANGED <<terminal, events>>
    /\ UNCHANGED <<endpoint, user_message, request_status, query_log_ids, dSearch, dSynth,
                   observed, consulted, cancelled_in, chat_messages, clock, gCallers,
                   notice_calls, dHist>>
    /\ DriverOnly

\* Lines 206-211.
CheckAfterRouter ==
    Checkpoint("chk_after_router", "Request cancelled after router decision", "after_router")

\* Mutant: the failure sentinel is not told from a decision.
RouterFailedIgnored(answer) == FALSE
\* if not router_answer
RouterFailed(answer) == answer.value = None

\* Lines 213-232: the sentinel ends the turn with an error; otherwise the
\* Research Request is stored with status pending.
StreamAfterRouter ==
    /\ endpoint = "stream"
    /\ dpc = "after_router"
    /\ IF RouterFailed(router_answer)
       THEN /\ End("error", "Router decision failed", NullId)
            /\ UNCHANGED request_status
       ELSE /\ request_status' = "pending"
            /\ IF router_answer.value.type = DirectResponse
               THEN dpc' = "chk_direct" /\ Emit(<<"router_decision">>)
               ELSE dpc' = "chk_research" /\ Emit(<<"router_decision", "status">>)
            /\ UNCHANGED terminal
    /\ UNCHANGED <<endpoint, user_message, router_answer, query_log_ids, dSearch, dSynth,
                   dCalls, observed, consulted, cancelled_in, chat_messages, clock, gCallers,
                   notice_calls, dHist>>
    /\ DriverOnly

\* Lines 233-238.
CheckBeforeDirect ==
    Checkpoint("chk_direct", "Request cancelled by user", "direct")

\* Lines 240-256: the direct answer is forwarded, stored as the assistant turn,
\* and the Research Request is completed.
StreamDirect ==
    /\ endpoint = "stream"
    /\ dpc = "direct"
    /\ forwarded' = Append(forwarded, router_answer.value.content)
    /\ LET stored == StoreMessage(chat_messages, clock, "assistant",
                                  <<router_answer.value.content>>, user_message, "text")
       IN  /\ chat_messages' = stored.rows
           /\ IF stored.ok
              THEN /\ request_status' = "completed"
                   /\ EndAfter(<<"summary_chunk">>, "completed", "", stored.message_id)
                   /\ UNCHANGED failures
              ELSE /\ EndAfter(<<"summary_chunk">>, "error",
                               "An error occurred during processing", NullId)
                   /\ UNCHANGED request_status
                   /\ failures' = failures \cup {"store"}
    /\ UNCHANGED <<endpoint, user_message, router_answer, query_log_ids, dSearch,
                   summary_stream, full_summary, dCalls, observed, consulted, cancelled_in,
                   clock, gCallers, notice_calls, query_logs, dispatched>>
    /\ DriverOnly

\* Lines 258-266.
CheckBeforeResearch ==
    Checkpoint("chk_research", "Request cancelled by user", "route")

\* search_progress_callback (lines 271-275) called by the workflow outside the
\* search tasks: the gate is called; if it returns True the callback raises,
\* route_research_request_with_progress catches it and returns None.
CallbackStep(label, next) ==
    /\ endpoint = "stream"
    /\ dpc = label
    /\ LET g == IsMessageCancelled(chat_messages, clock, user_message, FALSE)
       IN  /\ chat_messages' = g.rows
           /\ observed' = (observed \/ g.read)
           /\ IF g.ret
              THEN research_result' = "None" /\ dpc' = "chk_after_research"
              ELSE research_result' = research_result /\ dpc' = next
    /\ consulted' = TRUE
    /\ UNCHANGED <<endpoint, dStore, task_pc, dSynth, terminal, events, dCalls, cancelled_in, clock,
                   gCallers, notice_calls, dHist>>
    /\ DriverOnly

\* workflows.py line 222, for the value the driver passes as router_decision.
RouteTaken(decision) == decision \in ToolNames

\* endpoints.py lines 282-286 and workflows.py lines 221-225 and 245-283: the
\* driver passes enhanced_query where the decision is expected.  Unless that
\* text is the name of a tool the research branch is not taken: the text
\* "direct_response" reaches undefined names and any other text the else branch,
\* and None is returned.
StreamRoute ==
    /\ endpoint = "stream"
    /\ dpc = "route"
    /\ IF RouteTaken(router_answer.value.content)
       THEN dpc' = "cb_query_generation" /\ UNCHANGED research_result
       ELSE dpc' = "chk_after_research" /\ research_result' = "None"
    /\ UNCHANGED <<endpoint, dStore, task_pc, dSynth, terminal, events, dCalls, observed, consulted,
                   cancelled_in, chat_messages, clock, gCallers, notice_calls, dHist>>
    /\ DriverOnly

\* workflows.py lines 224-225.
CallbackQueryGeneration == CallbackStep("cb_query_generation", "expand")

\* workflows.py line 229, openai_service.py lines 74-100: the expansion call; when
\* it fails, line 100 raises and route_research_request_with_progress returns None.
StreamExpand ==
    /\ endpoint = "stream"
    /\ dpc = "expand"
    /\ Issue("expansion", observed)
    /\ \/ dpc' = "map" /\ UNCHANGED <<research_result, failures>>
       \/ /\ dpc' = "chk_after_research" /\ research_result' = "None"
          /\ failures' = failures \cup {"expansion"}
    /\ UNCHANGED <<endpoint, dStore, task_pc, dSynth, terminal, events, observed, consulted,
                   cancelled_in, chat_messages, clock, gCallers, notice_calls, query_logs, dispatched>>
    /\ DriverOnly

\* openai_service.py lines 103-122: the mapping call (a failure falls back) and
\* the task list, of any length the caller slots allow.
StreamMap ==
    /\ endpoint = "stream"
    /\ dpc = "map"
    /\ Issue("mapping", observed)
    /\ \E n \in 0..NumCallers :
         task_pc' = [p \in Callers |-> IF p <= n THEN "new" ELSE "absent"]
    /\ dpc' = "cb_search_execution"
    /\ UNCHANGED <<endpoint, dStore, research_result, dSynth, terminal, events, observed, consulted,
                   cancelled_in, chat_messages, clock, gCallers, notice_calls, dHist>>
    /\ DriverOnly

\* workflows.py lines 235-236.
CallbackSearchExecution == CallbackStep("cb_search_execution", "gather")

\* workflows.py lines 302-305, database_service.py lines 545-568: a search task
\* starts with search_progress_callback, whose gate call reads the flag.  Not
\* set: the call returns False and the search is dispatched (lines 325-344).
\* Set and a notice exists: the call returns True, the callback raises and the
\* task ends with an error record (lines 372-382), its search is not dispatched.
\* Set and no notice: the call goes on to store one, under the id the clock gives.
TaskStartCallback(p) ==
    /\ endpoint = "stream"
    /\ dpc = "gather"
    /\ task_pc[p] = "new"
    /\ gate[p].pc = "idle"
    /\ consulted' = TRUE
    /\ IF ~FlagSet(chat_messages, user_message)
       THEN /\ \E st \in InFlightStates : task_pc' = [task_pc EXCEPT ![p] = st]
            /\ Issue("search", observed)
            /\ dispatched' = dispatched \cup {p}
            /\ UNCHANGED <<gate, observed>>
       ELSE /\ observed' = TRUE
            /\ UNCHANGED <<dCalls, dispatched>>
            /\ IF Notices(chat_messages, user_message) # {}
               THEN /\ task_pc' = [task_pc EXCEPT ![p] = "error"]
                    /\ UNCHANGED gate
               ELSE /\ gate' = [gate EXCEPT ![p] = [GateIdle EXCEPT
                                    !.pc = "checked", !.message_id = user_message,
                                    !.is_cancelled = TRUE,
                                    !.new_id = MessageId(clock, SessionId)]]
                    /\ UNCHANGED task_pc
    /\ UNCHANGED <<endpoint, dpc, dStore, research_result, dSynth, terminal, events, cancelled_in,
                   chat_messages, clock, notice_calls, query_logs, failures>>
    /\ DriverOnly

\* database_service.py lines 569-603, workflows.py lines 305-344 and 372-382: the
\* INSERT of the notice.  Committed: the call returns True, the callback raises
\* and the task ends with an error record.  The id is taken: the INSERT raises,
\* the call returns False and the search is dispatched.
TaskFinishCallback(p) ==
    /\ endpoint = "stream"
    /\ dpc = "gather"
    /\ task_pc[p] = "new"
    /\ gate[p].pc = "checked"
    /\ LET stored == InsertMessage(chat_messages, gate[p].new_id, "assistant", NoticeText,
                                   user_message, "cancelled")
       IN  /\ chat_messages' = stored.rows
           /\ IF stored.ok
              THEN /\ task_pc' = [task_pc EXCEPT ![p] = "error"]
                   /\ UNCHANGED <<dCalls, dispatched>>
              ELSE /\ \E st \in InFlightStates : task_pc' = [task_pc EXCEPT ![p] = st]
                   /\ Issue("search", TRUE)
                   /\ dispatched' = dispatched \cup {p}
    /\ gate' = [gate EXCEPT ![p] = GateIdle]
    /\ UNCHANGED <<endpoint, dpc, dStore, research_result, dSynth, terminal, events, observed,
                   consulted, cancelled_in, clock, notice_calls, query_logs, failures>>
    /\ DriverOnly

\* workflows.py lines 326-382: the search returns, hits its timeout or fails; a
\* call the provider never responds to ends by the timeout of wait_for (lines
\* 327-344, 360-370).  A search that returned is followed by the second callback
\* (lines 346-348): if its gate call returns True the callback raises and the
\* task ends with an error record, otherwise with its success record.
TaskSearchDone(p) ==
    /\ endpoint = "stream"
    /\ dpc = "gather"
    /\ task_pc[p] \in InFlightStates
    /\ \E outcome \in SearchOutcomes :
         /\ task_pc[p] = "hung" => outcome = "timeout"
         /\ IF outcome = "ok"
            THEN LET g == IsMessageCancelled(chat_messages, clock, user_message, FALSE)
                 IN  /\ chat_messages' = g.rows
                     /\ observed' = (observed \/ g.read)
                     /\ consulted' = TRUE
                     /\ task_pc' = [task_pc EXCEPT ![p] = IF g.ret THEN "error"
                                                          ELSE "success"]
            ELSE /\ task_pc' = [task_pc EXCEPT ![p] = IF outcome = "timeout"
                                                      THEN "timeout" ELSE "error"]
                 /\ UNCHANGED <<chat_messages, observed, consulted>>
    /\ UNCHANGED <<endpoint, dpc, dStore, research_result, dSynth, terminal, events, dCalls,
                   cancelled_in, clock, gCallers, notice_calls, dHist>>
    /\ DriverOnly

\* Mutant: the barrier opens as soon as one task has ended.
GatherDoneFirst(tasks) ==
    \/ \A p \in Callers : tasks[p] = "absent"
    \/ \E p \in Callers : tasks[p] \in TaskEnded
\* asyncio.gather returns when every task has ended.
GatherDone(tasks) == \A p \in Callers : tasks[p] \in TaskEnded \cup {"absent"}

\* workflows.py lines 388-413 and 239-243, 281-283: the barrier, then the final
\* callback; if its gate call returns True the callback raises out of the
\* executor and route_research_request_with_progress returns None.
StreamFanIn ==
    /\ endpoint = "stream"
    /\ dpc = "gather"
    /\ GatherDone(task_pc)
    /\ LET g == IsMessageCancelled(chat_messages, clock, user_message, FALSE)
       IN  /\ chat_messages' = g.rows
           /\ observed' = (observed \/ g.read)
           /\ research_result' = IF g.ret THEN "None" ELSE "dict"
    /\ consulted' = TRUE
    /\ dpc' = "chk_after_research"
    /\ UNCHANGED <<endpoint, dStore, task_pc, dSynth, terminal, events, dCalls, cancelled_in, clock,
                   gCallers, notice_calls, dHist>>
    /\ DriverOnly

\* endpoints.py lines 288-293.
CheckAfterResearch ==
    Checkpoint("chk_after_research", "Request cancelled by user", "after_research")

NumTasks(tasks) == Cardinality({p \in Callers : tasks[p] # "absent"})

\* endpoints.py lines 295-317 and 366-367: without a result the turn ends with
\* an error; with one, the Query Log rows are stored and the synthesis stream is
\* opened.
StreamAfterResearch ==
    /\ endpoint = "stream"
    /\ dpc = "after_research"
    /\ IF research_result = "dict"
       THEN /\ query_log_ids' = NumTasks(task_pc)
            /\ query_logs' = [p \in Callers |-> IF task_pc[p] # "absent"
                                                 THEN StoreQueryLog ELSE "none"]
            /\ Issue("synthesis", observed)
            /\ summary_stream' \in SynthesisStreams
            /\ dpc' = "stream"
            /\ Emit(<<"status">>)
            /\ UNCHANGED terminal
       ELSE /\ End("error", "Research workflow failed", NullId)
            /\ UNCHANGED <<query_log_ids, query_logs, summary_stream, dCalls>>
    /\ UNCHANGED <<endpoint, user_message, router_answer, request_status, dSearch,
                   full_summary, forwarded, observed, consulted, cancelled_in, chat_messages,
                   clock, gCallers, notice_calls, dispatched, failures>>
    /\ DriverOnly

\* full_summary += chunk
\* Mutant: the chunk replaces what was accumulated.
AccumulateLast(summary, chunk) == <<chunk>>
Accumulate(summary, chunk) == Append(summary, chunk)

\* endpoints.py lines 317-338 and 369-371: a chunk boundary.  The gate is called
\* with skip_cancellation_message=True.  True: a summary that is not blank is
\* stored with the truncation marker as a partial assistant turn and the stream
\* ends with it; a blank one ends the stream with what get_cancellation_message
\* finds.  False: the chunk is accumulated and forwarded.
StreamChunk ==
    /\ endpoint = "stream"
    /\ dpc = "stream"
    /\ summary_stream # <<>>
    /\ consulted' = TRUE
    /\ LET g == IsMessageCancelled(chat_messages, clock, user_message, TRUE)
           stored == StoreMessage(chat_messages, clock, "assistant",
                                  PartialContent(full_summary), user_message, "partial")
           failed == IF Head(summary_stream) = FallbackSummary THEN {"synthesis"} ELSE {}
       IN  /\ observed' = (observed \/ g.read)
           /\ IF g.ret
              THEN /\ UNCHANGED dSynth
                   /\ IF Strip(full_summary) # <<>>
                      THEN /\ chat_messages' = stored.rows
                           /\ IF stored.ok
                              THEN /\ End("cancelled",
                                          "Request cancelled during summary generation",
                                          stored.message_id)
                                   /\ failures' = failures \cup failed
                              ELSE /\ End("error", "IntegrityError", NullId)
                                   /\ failures' = failures \cup failed \cup {"store"}
                      ELSE /\ UNCHANGED chat_messages
                           /\ End("cancelled", "Request cancelled during summary generation",
                                  GetCancellationMessage(chat_messages, user_message))
                           /\ failures' = failures \cup failed
              ELSE /\ full_summary' = Accumulate(full_summary, Head(summary_stream))
                   /\ forwarded' = Append(forwarded, Head(summary_stream))
                   /\ summary_stream' = Tail(summary_stream)
                   /\ failures' = failures \cup failed
                   /\ Emit(<<"summary_chunk">>)
                   /\ UNCHANGED <<chat_messages, terminal, dpc>>
    /\ UNCHANGED <<endpoint, dStore, dSearch, dCalls, cancelled_in, clock, gCallers,
                   notice_calls, query_logs, dispatched>>
    /\ DriverOnly

\* endpoints.py lines 340-365 and 369-371: the stream is exhausted; the summary
\* is stored as the assistant turn and the Research Request is completed.
StreamFinish ==
    /\ endpoint = "stream"
    /\ dpc = "stream"
    /\ summary_stream = <<>>
    /\ LET stored == StoreMessage(chat_messages, clock, "assistant", full_summary,
                                  user_message, "text")
       IN  /\ chat_messages' = stored.rows
           /\ IF stored.ok
              THEN /\ query_logs' = [p \in Callers |->
                                        IF query_logs[p] # "none"
                                        THEN UpdateQueryLog(query_logs[p], task_pc[p])
                                        ELSE query_logs[p]]
                   /\ request_status' = "completed"
                   /\ End("completed", "", stored.message_id)
                   /\ UNCHANGED failures
              ELSE /\ End("error", "IntegrityError", NullId)
                   /\ failures' = failures \cup {"store"}
                   /\ UNCHANGED <<request_status, query_logs>>
    /\ UNCHANGED <<endpoint, user_message, router_answer, query_log_ids, dSearch, dSynth,
                   dCalls, observed, consulted, cancelled_in, clock, gCallers, notice_calls,
                   dispatched>>
    /\ DriverOnly

\* cancel_request (endpoints.py lines 108-138) with the turn's message_id, through
\* cancel_message: the flag of the user turn is set.  The handler runs on the
\* server's event loop, so not while a synchronous call holds it.
CancelRequest ==
    /\ terminal = NoEvent
    /\ ~LoopBlocked
    /\ \E u \in TurnRows(chat_messages, user_message) :
         chat_messages' = (chat_messages \ {u}) \cup {CancelRow(u, DefaultReason, clock)}
    /\ cancelled_in' = IF cancelled_in = NotCancelled
                       THEN [pc |-> dpc, calls |-> ext_calls, inflight |-> InFlight]
                       ELSE cancelled_in
    /\ UNCHANGED <<endpoint, dpc, dStore, dSearch, dSynth, terminal, events, dCalls, observed,
                   consulted, clock, gCallers, notice_calls, dHist>>
    /\ DriverOnly

\* chat_send lines 396-409: the user turn is stored (a failure becomes a 500
\* response).
SendStoreUser ==
    /\ endpoint = "send"
    /\ dpc = "start"
    /\ LET stored == StoreMessage(chat_messages, clock, "user", <<"question">>, NullId, "text")
       IN  /\ chat_messages' = stored.rows
           /\ user_message' = stored.message_id
           /\ IF stored.ok
              THEN dpc' = "send_rag" /\ UNCHANGED <<terminal, events, failures>>
              ELSE End("error", "Internal Server Error", NullId) /\ failures' = failures \cup {"store"}
    /\ UNCHANGED <<endpoint, router_answer, request_status, query_log_ids, dSearch, dSynth,
                   dCalls, observed, consulted, cancelled_in, clock, gCallers, notice_calls, query_logs, dispatched>>
    /\ DriverOnly

\* chat_send lines 411-415: the catalog retrieval call.
SendCallRag ==
    /\ endpoint = "send"
    /\ dpc = "send_rag"
    /\ Issue("rag", observed)
    /\ \/ dpc' = "send_router" /\ UNCHANGED <<terminal, events, failures>>
       \/ End("error", "Internal Server Error", NullId) /\ failures' = failures \cup {"rag"}
    /\ UNCHANGED <<endpoint, dStore, dSearch, dSynth, observed, consulted, cancelled_in,
                   chat_messages, clock, gCallers, notice_calls, query_logs, dispatched>>
    /\ DriverOnly

\* chat_send lines 417-419: the classifier call is entered.
SendRouterCall ==
    /\ endpoint = "send"
    /\ dpc = "send_router"
    /\ Issue("router", observed)
    /\ dpc' = "send_router_call"
    /\ UNCHANGED <<endpoint, dStore, dSearch, dSynth, terminal, events, observed, consulted,
                   cancelled_in, chat_messages, clock, gCallers, notice_calls, dHist>>
    /\ DriverOnly

\* chat_send lines 419-420: the classifier call returns.
SendRouter ==
    /\ endpoint = "send"
    /\ dpc = "send_router_call"
    /\ UNCHANGED dCalls
    /\ \E response \in RouterResponses :
         /\ router_answer' = GetRouterDecision(response)
         /\ IF router_answer'.kind = "exception"
            THEN End("error", "Internal Server Error", NullId)
            ELSE dpc' = "send_after_router" /\ UNCHANGED <<terminal, events>>
    /\ UNCHANGED <<endpoint, user_message, request_status, query_log_ids, dSearch, dSynth,
                   observed, consulted, cancelled_in, chat_messages, clock, gCallers,
                   notice_calls, dHist>>
    /\ DriverOnly

\* chat_send lines 421-435: the sentinel becomes a 500 response; otherwise the
\* Research Request is stored with status pending.
SendAfterRouter ==
    /\ endpoint = "send"
    /\ dpc = "send_after_router"
    /\ IF RouterFailed(router_answer)
       THEN /\ End("error", "Router decision failed", NullId)
            /\ UNCHANGED request_status
       ELSE /\ request_status' = "pending"
            /\ dpc' = IF router_answer.value.type = DirectResponse
                      THEN "send_direct" ELSE "send_expand"
            /\ UNCHANGED <<terminal, events>>
    /\ UNCHANGED <<endpoint, user_message, router_answer, query_log_ids, dSearch, dSynth,
                   dCalls, observed, consulted, cancelled_in, chat_messages, clock, gCallers,
                   notice_calls, dHist>>
    /\ DriverOnly

\* chat_send lines 435-463: the direct answer is stored as the assistant turn and
\* the Research Request is completed.
SendDirect ==
    /\ endpoint = "send"
    /\ dpc = "send_direct"
    /\ LET stored == StoreMessage(chat_messages, clock, "assistant",
                                  <<router_answer.value.content>>, user_message, "text")
       IN  /\ chat_messages' = stored.rows
           /\ IF stored.ok
              THEN /\ request_status' = "completed"
                   /\ End("completed", "", stored.message_id)
                   /\ UNCHANGED failures
              ELSE /\ End("error", "Internal Server Error", NullId)
                   /\ UNCHANGED request_status
                   /\ failures' = failures \cup {"store"}
    /\ UNCHANGED <<endpoint, user_message, router_answer, query_log_ids, dSearch, dSynth,
                   dCalls, observed, consulted, cancelled_in, clock, gCallers, notice_calls, query_logs, dispatched>>
    /\ DriverOnly

\* chat_send line 466, openai_service.py lines 74-100: the expansion call; when it
\* fails, line 100 raises and the request ends with a 500 response.
SendExpand ==
    /\ endpoint = "send"
    /\ dpc = "send_expand"
    /\ Issue("expansion", observed)
    /\ \/ dpc' = "send_map" /\ UNCHANGED <<terminal, events, failures>>
       \/ End("error", "Internal Server Error", NullId) /\ failures' = failures \cup {"expansion"}
    /\ UNCHANGED <<endpoint, dStore, dSearch, dSynth, observed, consulted, cancelled_in,
                   chat_messages, clock, gCallers, notice_calls, query_logs, dispatched>>
    /\ DriverOnly

\* chat_send lines 466-475, openai_service.py lines 103-122: the mapping call, the
\* task list, and one Query Log row per task.
SendMap ==
    /\ endpoint = "send"
    /\ dpc = "send_map"
    /\ Issue("mapping", observed)
    /\ \E n \in 0..NumCallers :
         /\ task_pc' = [p \in Callers |-> IF p <= n THEN "new" ELSE "absent"]
         /\ query_log_ids' = n
         /\ query_logs' = [p \in Callers |-> IF p <= n THEN StoreQueryLog ELSE "none"]
    /\ dpc' = "send_search"
    /\ UNCHANGED <<endpoint, user_message, router_answer, request_status, research_result,
                   dSynth, terminal, events, observed, consulted, cancelled_in, chat_messages, clock,
                   gCallers, notice_calls, dispatched, failures>>
    /\ DriverOnly

\* chat_send line 479, workflows.py lines 124-158: execute_workflow hands every
\* task's provider call to asyncio.gather; no call is wrapped in a timeout.
SendDispatch ==
    /\ endpoint = "send"
    /\ dpc = "send_search"
    /\ IF NumTasks(task_pc) > 0 THEN Issue("search", observed) ELSE UNCHANGED dCalls
    /\ \E sts \in [Callers -> InFlightStates] :
         task_pc' = [p \in Callers |-> IF task_pc[p] = "absent" THEN "absent" ELSE sts[p]]
    /\ dispatched' = {p \in Callers : task_pc[p] # "absent"}
    /\ dpc' = "send_gather"
    /\ UNCHANGED <<endpoint, dStore, research_result, dSynth, terminal, events, observed, consulted,
                   cancelled_in, chat_messages, clock, gCallers, notice_calls, query_logs,
                   failures>>
    /\ DriverOnly

\* chat_send lines 479-497, workflows.py lines 158-211: gather returns when every
\* provider call has returned or raised; a call the provider never responds to
\* ends only if the HTTP client itself gives up, and then by raising (if it does
\* not, this step is never taken).  A call that returned gives a success record,
\* one that raised an error record; the Query Log rows take the records' statuses
\* and the Research Request the result's status, completed.
SendSearch ==
    /\ endpoint = "send"
    /\ dpc = "send_gather"
    /\ \E ends \in [Callers -> {"success", "error"}] :
         /\ \A p \in Callers : task_pc[p] = "hung" => ends[p] = "error"
         /\ task_pc' = [p \in Callers |-> IF task_pc[p] = "absent" THEN "absent"
                                           ELSE ends[p]]
    /\ query_logs' = [p \in Callers |-> IF p <= query_log_ids
                                         THEN UpdateQueryLog(query_logs[p], task_pc'[p])
                                         ELSE query_logs[p]]
    /\ research_result' = "dict"
    /\ request_status' = "completed"
    /\ dpc' = "send_synth"
    /\ UNCHANGED <<endpoint, user_message, router_answer, query_log_ids, dSynth, terminal, events,
                   dCalls, observed, consulted, cancelled_in, chat_messages, clock, gCallers,
                   notice_calls, dispatched, failures>>
    /\ DriverOnly

\* chat_send lines 499-514: the synthesis call and the assistant turn.  When the
\* call fails, the fallback of generate_research_summary reads .get of the result
\* list it was given and raises: a 500 response.
SendSynth ==
    /\ endpoint = "send"
    /\ dpc = "send_synth"
    /\ Issue("synthesis", observed)
    /\ \E summary \in SummaryStreams :
         LET stored == StoreMessage(chat_messages, clock, "assistant", summary,
                                    user_message, "text")
         IN  \/ /\ chat_messages' = stored.rows
                /\ full_summary' = summary
                /\ IF stored.ok
                   THEN End("completed", "", stored.message_id) /\ UNCHANGED failures
                   ELSE End("error", "Internal Server Error", NullId) /\ failures' = failures \cup {"store"}
             \/ /\ End("error", "Internal Server Error", NullId)
                /\ failures' = failures \cup {"synthesis"}
                /\ UNCHANGED <<chat_messages, full_summary>>
    /\ UNCHANGED <<endpoint, dStore, dSearch, summary_stream, forwarded, observed, consulted,
                   cancelled_in, clock, gCallers, notice_calls, query_logs, dispatched>>
    /\ DriverOnly

DriverNext ==
    \/ Tick
    \/ CancelRequest
    \/ StreamStoreUser
    \/ CheckBeforeProcessing
    \/ CheckBeforeRag
    \/ StreamCallRag
    \/ CheckAfterRag
    \/ StreamRouterCall
    \/ StreamRouter
    \/ CheckAfterRouter
    \/ StreamAfterRouter
    \/ CheckBeforeDirect
    \/ StreamDirect
    \/ CheckBeforeResearch
    \/ StreamRoute
    \/ CallbackQueryGeneration
    \/ StreamExpand
    \/ StreamMap
    \/ CallbackSearchExecution
    \/ \E p \in Callers : TaskStartCallback(p)
    \/ \E p \in Callers : TaskFinishCallback(p)
    \/ \E p \in Callers : TaskSearchDone(p)
    \/ StreamFanIn
    \/ CheckAfterResearch
    \/ StreamAfterResearch
    \/ StreamChunk
    \/ StreamFinish
    \/ SendStoreUser
    \/ SendCallRag
    \/ SendRouterCall
    \/ SendRouter
    \/ SendAfterRouter
    \/ SendDirect
    \/ SendExpand
    \/ SendMap
    \/ SendDispatch
    \/ SendSearch
    \/ SendSynth

-----------------------------------------------------------------------------
(* Specifications: one per component; the variables of the other components *)
(* keep their initial values.                                               *)

ExecRest ==
    /\ mode = "plain" /\ search_tasks = <<>> /\ tstate = <<>> /\ search_results = <<>>
    /\ completed_results = <<>> /\ epc = "gather" /\ turn_cancelled = FALSE
    /\ out_of_order = FALSE
PlanRest ==
    /\ ppc = "expand" /\ router_decision = "Provide_a_List" /\ dynamic_websites = <<>>
    /\ expansion = NotCalled /\ queries = Unbound /\ generated_queries = <<RouterQuery>>
    /\ mapping_response = NotCalled /\ query_mappings = <<>> /\ plan_tasks = <<>>

DriverRest == DriverInit /\ endpoint = "stream"

SessionRest == SessionInit

InitExec == ExecInit /\ PlanRest /\ GateInit /\ DriverRest /\ SessionRest
InitPlan == PlanInit /\ ExecRest /\ GateInit /\ DriverRest /\ SessionRest
InitGate == GateInit /\ ExecRest /\ PlanRest /\ DriverRest /\ SessionRest
InitDriver == DriverInit /\ ExecRest /\ PlanRest /\ GateInit /\ SessionRest
InitSession == SessionInit /\ GateInit /\ ExecRest /\ PlanRest /\ DriverRest

SpecExec == InitExec /\ [][ExecNext]_vars
SpecPlan == InitPlan /\ [][PlanNext]_vars
SpecGate == InitGate /\ [][GateNext]_vars
SpecGateSeq == InitGate /\ [][GateSeqNext]_vars
SpecDriver == InitDriver /\ [][DriverNext]_vars
SpecSession == InitSession /\ [][SessionNext]_vars

-----------------------------------------------------------------------------
(* Claims about the Parallel Search Executor (checked under SpecExec) *)

Statuses(results) == {results[i].status : i \in DOMAIN results}
CountStatus(results, st) == Cardinality({i \in DOMAIN results : results[i].status = st})

\* C1: whatever the task list and however each task ends (success, timeout,
\* exception), the result list the executor returns, in both variants, has exactly
\* as many entries as tasks were submitted.
C1_ResultCount ==
    epc = "returned" => Len(completed_results) = Len(search_tasks)

\* C1 witness: the progress variant has returned for at least three tasks that
\* ended in a mix of success, timeout and error.
C1_Witness ==
    /\ epc = "returned"
    /\ mode = "progress"
    /\ Len(search_tasks) >= 3
    /\ {"success", "timeout", "error"} \subseteq Statuses(completed_results)
    /\ Len(completed_results) = Len(search_tasks)

\* The status recorded for a task that ended under the given label.
RecordedStatus(label) == IF label = "cancelled" THEN "error" ELSE label

\* C2: in execute_workflow_with_progress every task can start while the others
\* run, the end of one task leaves the slots of the others untouched (a task that
\* has not finished has no result, it was not cancelled), each finished task's
\* recorded status is the one its own outcome gives, and the final list has one
\* entry per task with that status.
C2_FailureIsolation ==
    mode = "progress" =>
        /\ \A i \in TaskIds :
              /\ (epc = "gather" /\ tstate[i] = "new") => ENABLED StartSearchTask(i)
              /\ (epc = "gather" /\ tstate[i] = "searching") => ENABLED FinishSearchTask(i)
              /\ ~Finished(i) => search_results[i] = NoResult
              /\ Finished(i) =>
                    /\ search_results[i].kind = "dict"
                    /\ search_results[i].value.status = RecordedStatus(tstate[i])
        /\ epc = "returned" =>
              /\ Len(completed_results) = Len(search_tasks)
              /\ \A i \in TaskIds : completed_results[i].status = RecordedStatus(tstate[i])

\* C2 witness: four tasks, one timed out and the other three succeeded; the
\* returned list has four entries, exactly one timeout and three successes.
C2_Witness ==
    /\ epc = "returned"
    /\ mode = "progress"
    /\ Len(search_tasks) = 4
    /\ Cardinality({i \in TaskIds : tstate[i] = "timeout"}) = 1
    /\ Cardinality({i \in TaskIds : tstate[i] = "success"}) = 3
    /\ Len(completed_results) = 4
    /\ CountStatus(completed_results, "timeout") = 1
    /\ CountStatus(completed_results, "success") = 3

CarriesTask(result, task) ==
    /\ result.query = task.query
    /\ result.search_type = task.type
    /\ result.websites = task.websites

\* C3: the i-th returned result carries the query, the kind and the source subset
\* of the i-th submitted task, in whatever order the searches finished.
C3_IndexAssociation ==
    epc = "returned" =>
        \A i \in TaskIds :
            /\ i \in DOMAIN completed_results
            /\ CarriesTask(completed_results[i], search_tasks[i])

\* C3 witness: the executor returned after some task finished before an earlier
\* one, for a list holding two different tasks, and every result is its task's.
C3_Witness ==
    /\ epc = "returned"
    /\ out_of_order
    /\ \E i, j \in TaskIds : i < j /\ search_tasks[i] # search_tasks[j]
    /\ \A i \in TaskIds : CarriesTask(completed_results[i], search_tasks[i])

\* C4 as stated: a task that timed out is recorded with status timeout and empty
\* content (no text, no citations, no links); a task that failed otherwise with
\* status error and the exception text; none is omitted.
C4_TimeoutEmptyContent ==
    (mode = "progress" /\ epc = "returned") =>
        /\ Len(completed_results) = Len(search_tasks)
        /\ \A i \in TaskIds :
              /\ tstate[i] = "timeout" =>
                    /\ completed_results[i].status = "timeout"
                    /\ completed_results[i].result = <<>>
                    /\ completed_results[i].citations = <<>>
                    /\ completed_results[i].extracted_links = {}
              /\ tstate[i] = "error" =>
                    /\ completed_results[i].status = "error"
                    /\ completed_results[i].result = <<"Error: ", "provider failure">>

\* C4 amended: a task that timed out is recorded with status timeout, the fixed
\* text "Search timeout - no results available" as its result, no citations and no
\* links; a task that failed with another exception (the provider's, or the
\* progress callback's) with status error and "Error: " followed by the exception
\* text; none is omitted.
C4_TimeoutPlaceholder ==
    (mode = "progress" /\ epc = "returned") =>
        /\ Len(completed_results) = Len(search_tasks)
        /\ \A i \in TaskIds :
              /\ tstate[i] = "timeout" =>
                    /\ completed_results[i].status = "timeout"
                    /\ completed_results[i].result = <<"Search timeout - no results available">>
                    /\ completed_results[i].citations = <<>>
                    /\ completed_results[i].extracted_links = {}
              /\ tstate[i] = "error" =>
                    /\ completed_results[i].status = "error"
                    /\ completed_results[i].result = <<"Error: ", "provider failure">>
                    /\ completed_results[i].citations = <<>>
                    /\ completed_results[i].extracted_links = {}
              /\ tstate[i] = "cancelled" =>
                    /\ completed_results[i].status = "error"
                    /\ completed_results[i].result = <<"Error: ", "Request cancelled during search">>

\* C4 witness: the progress variant returned with a timed-out task and a task
\* whose provider call raised.
C4_Witness ==
    /\ epc = "returned"
    /\ mode = "progress"
    /\ \E i, j \in TaskIds :
          /\ tstate[i] = "timeout" /\ completed_results[i].status = "timeout"
          /\ tstate[j] = "error" /\ completed_results[j].status = "error"

-----------------------------------------------------------------------------
(* Claims about the Expander, the Mapper and the task builder (SpecPlan) *)

Mapped == ppc \in {"build", "returned"}

\* The catalog's domains, in catalog order.
CatalogDomains == [k \in DOMAIN dynamic_websites |-> dynamic_websites[k].domain]

\* C5: map_queries_to_websites returns exactly one mapping per supplied sub-query,
\* and when the mapping call failed or returned another number of mappings than
\* sub-queries, the mapping is every sub-query, in input order, with the full list
\* of catalog domains.
C5_MappingCardinality ==
    Mapped =>
        /\ Len(query_mappings) = Len(generated_queries)
        /\ (~mapping_response.ok \/ Len(mapping_response.value) # Len(generated_queries)) =>
              \A i \in 1..Len(generated_queries) :
                  /\ query_mappings[i].query = generated_queries[i]
                  /\ query_mappings[i].websites = CatalogDomains

\* C5 witness: the mapping call answered with another number of mappings than the
\* two or more sub-queries, the catalog is not empty, and the function returned.
C5_Witness ==
    /\ ppc = "returned"
    /\ Len(generated_queries) >= 2
    /\ dynamic_websites # <<>>
    /\ mapping_response.ok
    /\ mapping_response.value # <<>>
    /\ Len(mapping_response.value) # Len(generated_queries)
    /\ Len(query_mappings) = Len(generated_queries)

\* C6: mapping i is the record of the i-th sub-query (its query text is that
\* sub-query), so every scoped task carries the text of a supplied sub-query.
C6_MappingQueryIdentity ==
    ppc = "returned" =>
        /\ \A i \in DOMAIN query_mappings :
              /\ i \in DOMAIN generated_queries
              /\ query_mappings[i].query = generated_queries[i]
        /\ \A k \in DOMAIN plan_tasks :
              plan_tasks[k].type = "domain_filtered" =>
                  \E i \in DOMAIN generated_queries : plan_tasks[k].query = generated_queries[i]

\* C7: when the expansion call fails, generate_and_map_research_queries does not
\* raise; it goes on with the single sub-query [restated query] and returns the
\* tasks built from it.
C7_ExpansionFallback ==
    (expansion.called /\ ~expansion.ok /\ ppc # "debug") =>
        /\ ppc # "raised"
        /\ generated_queries = <<"restated query">>
        /\ ppc = "returned" =>
              /\ plan_tasks # <<>>
              /\ plan_tasks[1] = [type |-> "general_web", query |-> "restated query",
                                  websites |-> <<>>]

\* C8: the sub-query list used downstream has between 1 and 3 entries and the
\* task list handed to the executor is never empty, whatever the expansion call
\* returned.
C8_SubQueryCount ==
    /\ ppc \in {"map", "build", "returned"} =>
          (Len(generated_queries) >= 1 /\ Len(generated_queries) <= 3)
    /\ ppc = "returned" => plan_tasks # <<>>

HasWebsites(m) == m.websites # <<>>

\* C9: for n sub-queries the task list is n general_web tasks, one per sub-query
\* in order and each with no websites, followed by one domain_filtered task for
\* each mapping with a non-empty source subset, in mapping order; so it has
\* between n and 2n tasks and no domain_filtered task has an empty subset.
C9_TaskListShape ==
    ppc = "returned" =>
        LET n == Len(generated_queries)
            scoped == SelectSeq(query_mappings, HasWebsites)
        IN  /\ Len(plan_tasks) = n + Len(scoped)
            /\ n <= Len(plan_tasks)
            /\ Len(plan_tasks) <= 2 * n
            /\ \A i \in 1..n :
                  plan_tasks[i] = [type |-> "general_web", query |-> generated_queries[i],
                                   websites |-> <<>>]
            /\ \A k \in 1..Len(scoped) :
                  plan_tasks[n + k] = [type |-> "domain_filtered", query |-> scoped[k].query,
                                       websites |-> scoped[k].websites]
            /\ \A k \in DOMAIN plan_tasks :
                  plan_tasks[k].type = "domain_filtered" => plan_tasks[k].websites # <<>>

\* C9 witness: two sub-queries, the LLM's two mappings were accepted, the first
\* without websites and the second with some: two unscoped tasks and one scoped.
C9_Witness ==
    /\ ppc = "returned"
    /\ Len(generated_queries) = 2
    /\ mapping_response.ok
    /\ query_mappings = mapping_response.value
    /\ query_mappings[1].websites = <<>>
    /\ query_mappings[2].websites # <<>>
    /\ Len(plan_tasks) = 3
    /\ plan_tasks[3].type = "domain_filtered"

-----------------------------------------------------------------------------
(* Claims about the Cancellation Gate (SpecGate) *)

\* C10: under every interleaving of concurrent is_message_cancelled calls for the
\* same cancelled turn, at most one Cancellation Notice (role assistant, type
\* cancelled, reply_to that turn) exists.
C10_AtMostOneNotice ==
    \A u \in UserRows :
        Cardinality({r \in chat_messages : /\ r.role = "assistant"
                                           /\ r.type = "cancelled"
                                           /\ r.reply_to = u.message_id}) <= 1

-----------------------------------------------------------------------------
(* Claims about sequential calls of the Cancellation Gate (SpecGateSeq) *)

\* C11: when is_message_cancelled(message_id, session_id) is called twice in
\* sequence for the same cancelled turn, the first call adds the notice and the
\* second call adds no turn: after the second call exactly one notice exists.
C11_SecondCallAddsNothing ==
    Len(notice_calls) >= 2 =>
        /\ notice_calls[1]
        /\ ~notice_calls[2]
        /\ \A u \in UserRows : Cardinality(Notices(chat_messages, u.message_id)) = 1

-----------------------------------------------------------------------------
(* Claims about the pipeline drivers (checked under SpecDriver) *)

\* The assistant turns stored for the turn, notices apart.
AnswerRows(rows, id) ==
    {r \in rows : r.role = "assistant" /\ r.reply_to = id /\ r.type # "cancelled"}
NoticeIds(rows, id) == {r.message_id : r \in Notices(rows, id)}

\* A step of the streaming driver at a chunk boundary whose gate call reads the
\* flag set.
CancelledAtChunkBoundary ==
    /\ endpoint = "stream"
    /\ dpc = "stream"
    /\ summary_stream # <<>>
    /\ FlagSet(chat_messages, user_message)
    /\ dpc' = "done"

\* C12: when the flag is observed at a chunk boundary after some non-empty text
\* has been forwarded, the step persists one assistant turn whose content is the
\* forwarded chunks followed by the truncation marker, forwards no further chunk,
\* and ends the stream with a cancelled event.
C12_PartialPersisted ==
    [][(CancelledAtChunkBoundary /\ forwarded # <<>>) =>
          /\ forwarded' = forwarded
          /\ terminal'.type = "cancelled"
          /\ \E r \in AnswerRows(chat_messages', user_message) :
                /\ AnswerRows(chat_messages', user_message) = {r}
                /\ r.content = PartialContent(forwarded)]_vars

\* C13: whenever the streaming driver ends a turn as cancelled before any
\* assistant text was produced, at whichever checkpoint (the first chunk boundary
\* of synthesis included), a Cancellation Notice for the turn exists and the
\* cancelled event carries it as its assistant_message, never null.
C13_NoticeCarried ==
    (terminal.type = "cancelled" /\ forwarded = <<>>) =>
        /\ Notices(chat_messages, user_message) # {}
        /\ terminal.assistant_message \in NoticeIds(chat_messages, user_message)

\* The flag was first set after the mapping call returned and before any search
\* was dispatched.
CancelledBetweenMappingAndSearching ==
    /\ endpoint = "stream"
    /\ cancelled_in.pc \in {"cb_search_execution", "gather"}
    /\ "search" \notin cancelled_in.calls

\* C14: if the flag is set after mapping and before searching, no search call is
\* dispatched, the Research Request is never completed, and the stream ends with
\* a cancelled event and exactly one Cancellation Notice for the turn.
C14_SearchSkipped ==
    CancelledBetweenMappingAndSearching =>
        /\ "search" \notin ext_calls
        /\ request_status # "completed"
        /\ dpc = "done" =>
              /\ terminal.type = "cancelled"
              /\ Cardinality(Notices(chat_messages, user_message)) = 1

LaterStageCalls == {"expansion", "mapping", "search", "synthesis"}

\* C15: in the streaming driver, once a checkpoint has read the flag set no
\* expansion, mapping, search or synthesis call is issued and the stream does not
\* end with completed; a flag set before Expanding prevents the expansion call.
C15_NoCallAfterObserved ==
    endpoint = "stream" =>
        /\ late_calls \cap LaterStageCalls = {}
        /\ observed => terminal.type # "completed"
        /\ DriverState(cancelled_in.pc) \in {"Received", "Classifying"}
              => "expansion" \notin ext_calls

\* C16: no endpoint runs the pipeline without consulting the flag: a turn whose
\* flag was set while its driver was in one of the states Received .. Synthesizing
\* and that the driver completed had the gate called for it at least once (so
\* that the run could have ended in Cancelled).
C16_FlagConsulted ==
    (terminal.type = "completed" /\ cancelled_in # NotCancelled) => consulted

C18_FlagPermanent ==
    [][\A r \in chat_messages :
          r.is_cancelled =>
              \E t \in chat_messages' : t.message_id = r.message_id /\ t.is_cancelled]_vars

\* C18 witness: the flag was set before the catalog call, the driver ran on to
\* the end of the turn, rows were stored meanwhile, and the flag is still set.
C18_Witness ==
    /\ cancelled_in.pc = "rag"
    /\ dpc = "done"
    /\ Notices(chat_messages, user_message) # {}
    /\ FlagSet(chat_messages, user_message)

DecisionTypes == ToolNames \cup {DirectResponse}

ClassifierFailed ==
    /\ "router" \in ext_calls
    /\ ~LoopBlocked
    /\ router_answer = Returned(None)

\* C20: when the classifier returns the failure sentinel for a turn that is not
\* cancelled, the driver of either endpoint goes no further than its check of the
\* answer, ends the turn with an error, and has created no Research Request, no
\* Query Log row and no assistant turn.
C20_ClassifierFailure ==
    (ClassifierFailed /\ cancelled_in = NotCancelled) =>
        /\ dpc \in {"chk_after_router", "after_router", "send_after_router", "done"}
        /\ dpc = "done" => terminal.type = "error"
        /\ request_status = "none"
        /\ query_log_ids = 0
        /\ {r \in chat_messages : r.role = "assistant"} = {}

\* C20 witness: the streaming driver ended a turn that was never cancelled with
\* the error event of the failed classification.
C20_Witness ==
    /\ endpoint = "stream"
    /\ ClassifierFailed
    /\ cancelled_in = NotCancelled
    /\ dpc = "done"
    /\ terminal = Event("error", "Router decision failed", NullId)
    /\ request_status = "none"

\* C21: the classifier call is a suspension point: while it is outstanding a
\* cancel request for the turn can be served (the call does not hold the thread
\* that serves the other requests).
C21_ClassifierSuspends ==
    (LoopBlocked /\ terminal = NoEvent) => ENABLED CancelRequest

\* C22: on both endpoints a provider call that never responds ends with a
\* timeout outcome (and so the search stage ends): a task whose call is
\* unresponsive leaves that state only for the outcome timeout.
C22_UnresponsiveTimesOut ==
    [][\A p \in Callers :
          task_pc[p] = "hung" => task_pc'[p] \in {"hung", "timeout"}]_vars

\* The classifier gave a decision of one of the given types, and the turn was
\* never cancelled.
ClassifiedAs(types) ==
    /\ "router" \in ext_calls
    /\ ~LoopBlocked
    /\ router_answer.kind = "dict"
    /\ router_answer.value # None
    /\ router_answer.value.type \in types
    /\ cancelled_in = NotCancelled

\* No stage call failed and every search task that ran gave a result.
StagesSucceeded ==
    /\ failures = {}
    /\ \A p \in Callers : task_pc[p] \in {"absent", "success"}

\* C23: a turn of the streaming endpoint classified list or search, never
\* cancelled and with every stage call succeeding, runs expansion, mapping and
\* synthesis after the classifier and ends with `completed`.
C23_ResearchRunsToCompleted ==
    (endpoint = "stream" /\ dpc = "done" /\ ClassifiedAs(ToolNames) /\ StagesSucceeded) =>
        /\ terminal.type = "completed"
        /\ {"expansion", "mapping", "synthesis"} \subseteq ext_calls
        /\ request_status = "completed"

\* C24: a turn classified direct and never cancelled issues no expansion,
\* mapping, search or synthesis call; when it has ended, exactly one assistant
\* turn is stored, its content is the classifier's reply and its reply_to the
\* user turn, and the turn ended completed.
C24_DirectTurn ==
    ClassifiedAs({DirectResponse}) =>
        /\ ext_calls \cap {"expansion", "mapping", "search", "synthesis"} = {}
        /\ dpc = "done" =>
              /\ terminal.type = "completed"
              /\ \E a \in chat_messages :
                    /\ {r \in chat_messages : r.role = "assistant"} = {a}
                    /\ a.content = <<router_answer.value.content>>
                    /\ a.reply_to = user_message

\* C25: after a run, a turn classified list or search has exactly one Research
\* Request and a turn classified direct has none.
C25_RequestPerResearchTurn ==
    dpc = "done" =>
        /\ ClassifiedAs(ToolNames) => request_status # "none"
        /\ ClassifiedAs({DirectResponse}) => request_status = "none"

\* C26: when a run has ended, the Research Request has as many Query Log rows as
\* search tasks were dispatched for it.
C26_QueryLogPerDispatchedTask ==
    (dpc = "done" /\ request_status # "none") => query_log_ids = Cardinality(dispatched)

\* C27: when a run has ended (the search batch long completed), no Query Log row
\* of its request is still pending.
C27_NoPendingQueryLog ==
    dpc = "done" => \A p \in Callers : query_logs[p] # "pending"

QueryLogTerminal == {"success", "error", "timeout"}

\* C28: the status of a Query Log row changes only from pending to one of
\* success, error, timeout (a row is created pending); a terminal status never
\* changes.
C28_QueryLogStatusOneWay ==
    [][\A p \in Callers :
          query_logs'[p] # query_logs[p] =>
              \/ query_logs[p] = "none" /\ query_logs'[p] = "pending"
              \/ query_logs[p] = "pending" /\ query_logs'[p] \in QueryLogTerminal]_vars

\* C28 witness: the streaming driver has completed a turn with two Query Log rows,
\* one moved to timeout and one to success.
C28_Witness ==
    /\ endpoint = "stream"
    /\ dpc = "done"
    /\ terminal.type = "completed"
    /\ query_logs[1] = "timeout"
    /\ query_logs[2] = "success"

\* C29: when the synthesis call failed in a turn that was never cancelled, the
\* turn ends with an error, not with completed, and the text forwarded to the
\* caller is stored as an assistant turn.
C29_SynthesisFailureIsTerminal ==
    (dpc = "done" /\ "synthesis" \in failures /\ cancelled_in = NotCancelled) =>
        /\ terminal.type = "error"
        /\ forwarded # <<>> =>
              \E a \in AnswerRows(chat_messages, user_message) : a.content = forwarded

\* C30: a turn classified list or search, never cancelled, in which neither the
\* synthesis call nor a store call failed, ends completed with its answer stored,
\* however the expansion call, the mapping call and the search tasks ended.
C30_DegradesGracefully ==
    (dpc = "done" /\ ClassifiedAs(ToolNames) /\ failures \subseteq {"expansion"}) =>
        /\ terminal.type = "completed"
        /\ AnswerRows(chat_messages, user_message) # {}

(***************************************************************************)
(* Terminal events of a streaming run                                      *)
(***************************************************************************)
TerminalPositions == {i \in DOMAIN events : events[i] \in TerminalTypes}
Emitted(type) == \E i \in DOMAIN events : events[i] = type

\* C31: a streaming run sends exactly one terminal event (completed, cancelled
\* or error): never a second one, nothing after it, and never both a
\* completed and a cancelled event; a run that has ended has sent its one.
C31_OneTerminalEvent ==
    endpoint = "stream" =>
        /\ Cardinality(TerminalPositions) <= 1
        /\ TerminalPositions \subseteq {Len(events)}
        /\ ~(Emitted("completed") /\ Emitted("cancelled"))
        /\ dpc = "done" => /\ Cardinality(TerminalPositions) = 1
                           /\ events[Len(events)] = terminal.type
        /\ dpc # "done" => TerminalPositions = {}

\* A research run has streamed two chunks and then sent its completed event.
C31_Witness ==
    /\ endpoint = "stream"
    /\ dpc = "done"
    /\ Len(events) >= 7
    /\ events[Len(events)] = "completed"
    /\ events[Len(events) - 1] = "summary_chunk"

-----------------------------------------------------------------------------
(* Claims about concurrent requests of one session (checked under SpecSession) *)

StoredIds(rows) == {r.message_id : r \in rows}
\* The rows a step has inserted.
Inserted == {t \in chat_messages' : t.message_id \notin StoredIds(chat_messages)}
\* The rows whose flag a step has set.
NewlyFlagged ==
    {r \in chat_messages :
        /\ ~r.is_cancelled
        /\ \E t \in chat_messages' : t.message_id = r.message_id /\ t.is_cancelled}

\* C32: within a session every inserted turn, stored by store_message or as a
\* Cancellation Notice, gets an order greater than the order of every turn
\* stored before it, so the orders are pairwise distinct, however the calls
\* overlap.
C32_OrderIncreases ==
    [][\A t \in Inserted : \A r \in chat_messages :
          r.session_id = t.session_id => r.message_order < t.message_order]_vars

\* C33: a turn that is cancelled keeps its flag, its cancellation reason and
\* its cancellation timestamp through every later cancel request.
C33_OneCancellationWrite ==
    [][\A r \in chat_messages :
          r.is_cancelled =>
              \E t \in chat_messages' :
                  /\ t.message_id = r.message_id
                  /\ t.is_cancelled
                  /\ t.cancellation_reason = r.cancellation_reason
                  /\ t.cancellation_timestamp = r.cancellation_timestamp]_vars

\* C36: a cancel request with neither message_id nor session_id is answered
\* with status 400 and leaves every row as it was.
C36_MissingIdsRejected ==
    [][\A reason \in Reasons :
          CancelEndpoint(NullId, NoSession, reason) =>
              /\ cancel_response'.status_code = 400
              /\ chat_messages' = chat_messages]_vars

\* C37: a cancel request by session id flags only user turns that have no
\* assistant answer yet, and reports the number of rows it flagged.
C37_OnlyPendingCancelled ==
    [][\A reason \in Reasons :
          CancelEndpoint(NullId, SessionId, reason) =>
              /\ \A r \in NewlyFlagged :
                    /\ r.role = "user"
                    /\ AnswerRows(chat_messages, r.message_id) = {}
              /\ cancel_response'.cancelled_count = Cardinality(NewlyFlagged)]_vars

\* C40: the identifier a store_message call or a notice insertion has made
\* for its turn is the identifier of no turn of the session stored so far.
C40_FreshIdentifier ==
    /\ \A w \in Writers :
          writer[w].pc = "ordered" => ~KeyTaken(chat_messages, writer[w].message_id)
    /\ \A p \in Callers :
          gate[p].pc \in {"checked", "ordered"} => ~KeyTaken(chat_messages, gate[p].new_id)

-----------------------------------------------------------------------------
(* Further claims about the pipeline drivers (checked under SpecDriver) *)

\* C34: when the streaming driver has sent `completed`, the assistant turn the
\* event names is stored, replies to the user turn, and its content is the
\* summary_chunk contents sent on the stream, in order.
C34_CompletedAfterPersisted ==
    (endpoint = "stream" /\ Emitted("completed")) =>
        \E r \in chat_messages :
            /\ r.message_id = terminal.assistant_message
            /\ r.role = "assistant"
            /\ r.type = "text"
            /\ r.reply_to = user_message
            /\ r.content = forwarded

\* A research stream of two chunks was forwarded and stored.
C34_Witness ==
    /\ endpoint = "stream"
    /\ Emitted("completed")
    /\ Len(forwarded) = MaxChunks
    /\ \E r \in chat_messages : r.reply_to = user_message /\ r.content = forwarded

\* C35: the user turn never has both a Cancellation Notice and an assistant
\* answer, full or partial, replying to it; a cancellation at a chunk boundary
\* that stores the partial text adds no notice.
C35_NoticeOrAnswer ==
    /\ ~(Notices(chat_messages, user_message) # {} /\ AnswerRows(chat_messages, user_message) # {})
    /\ (\E r \in chat_messages : r.reply_to = user_message /\ r.type = "partial") =>
           Notices(chat_messages, user_message) = {}

\* The stream was cancelled at a chunk boundary and the partial text is stored.
C35_Witness ==
    /\ endpoint = "stream"
    /\ terminal.type = "cancelled"
    /\ \E r \in chat_messages :
          /\ r.reply_to = user_message
          /\ r.type = "partial"
          /\ r.message_id = terminal.assistant_message
    /\ Notices(chat_messages, user_message) = {}

\* C38: in both endpoints the Research Request is `completed` only when an
\* assistant answer replying to the user turn is stored, and a turn that has
\* ended in error or cancelled has not left its request `completed`.
C38_CompletedHasAnswer ==
    /\ request_status = "completed" =>
          \E r \in AnswerRows(chat_messages, user_message) : r.type = "text"
    /\ (dpc = "done" /\ terminal.type \in {"error", "cancelled"}) =>
          request_status # "completed"

-----------------------------------------------------------------------------
(* A further claim about the Cancellation Gate (checked under SpecGate) *)

\* C39: a gate call that has read the turn's flag set returns true, whatever
\* happens to the insertion of the Cancellation Notice.
C39_FlaggedReturnsTrue ==
    \A p \in Callers :
        (gate[p].pc = "returned" /\ gate[p].is_cancelled) => gate[p].ret

====
